---- MODULE Spec2Model ----
(***************************************************************************)
(* Verification model of the gemini-cli web application back end:         *)
(*   - the fixed-window rate limiter (SupabaseRateLimitModel and the      *)
(*     Drizzle-backed RateLimitModel),                                    *)
(*   - the POST /api/chat/stream route and the streaming generator,       *)
(*   - the session-guarded CRUD routes under /api.                        *)
(* Time is counted in minutes; one hour bucket is HOUR minutes long.      *)
(***************************************************************************)
EXTENDS Integers, Sequences, FiniteSets, TLC

VARIABLES
    now,          \* Date.now(), in minutes
    rate_limits,  \* Supabase table rate_limits: sequence of rows, index = id
    limits,       \* Drizzle table limits: sequence of rows, index = id
    calls,        \* in-flight recordUsage calls (one record per call slot)
    lastCheck,    \* arguments and result of the latest checkLimit call
    usageLog,     \* history: the recordUsage calls that completed
    req,          \* POST /api/chat/stream requests in progress, one per slot
    profiles,     \* Supabase table profiles: id -> api_key_enc
    trialKey,     \* process.env.GEMINI_TRIAL_API_KEY
    usage_stats,  \* Supabase table usage_stats
    admitted,     \* history: per user, usages on record plus requests admitted
    chats,        \* Drizzle table chats and its identity sequence
    messages,     \* Drizzle table messages and its identity sequence
    users,        \* Drizzle table users: email -> api_key_enc
    cost_settings, \* profiles.cost_settings by email
    resp          \* the latest response of a CRUD route, with what the handler did

limVars == <<now, rate_limits, limits, calls, lastCheck, usageLog>>
strVars == <<req, profiles, trialKey, usage_stats, admitted>>
apiVars == <<chats, messages, users, cost_settings, resp>>

vars == <<now, rate_limits, limits, calls, lastCheck, usageLog,
          req, profiles, trialKey, usage_stats, admitted,
          chats, messages, users, cost_settings, resp>>

----------------------------------------------------------------------------
(* Bounds of the model *)

MaxTime == 80         \* the clock stops advancing here
MaxRows == 3          \* rows per rate-limit table
MaxLog == 3           \* completed recordUsage calls remembered
NumCalls == 2         \* concurrent recordUsage calls
MaxStats == 2         \* rows of usage_stats

(* Program constants *)

HOUR == 60                    \* 60 * 60 * 1000 ms, in minutes
DefaultWindowMinutes == 60
DefaultMaxRequests == 100
DefaultMaxTokens == 10000

----------------------------------------------------------------------------
(* Input sets *)

UserIds == {"trial_1", "alice@example.com"}
TickSteps == {20, 60}
WindowChoices == {30, 60, 1440}
MaxRequestChoices == {1, 2}
MaxTokenChoices == {4}
TokenChoices == {1, 3}

NoRow == [id |-> 0]
NoCheck == [userId |-> "none"]

----------------------------------------------------------------------------
(* Rate limiter: pure parts *)

\* now.getTime() - (now.getTime() % (60 * 60 * 1000))
HourStart(t) == t - (t % HOUR)

\* supabase ... .single(): the row when exactly one row matches, else no data
\* (error PGRST116 for zero or several rows)
Single(tab, ids) ==
    IF Cardinality(ids) = 1 THEN tab[CHOOSE i \in ids : TRUE] ELSE NoRow

\* checkLimit with request_count <= maxRequests in place of <
SupabaseRateLimitModel_checkLimit_inclusive(tab, t, userId, windowMinutes, maxRequests, maxTokens, lookupError) ==
    LET windowStart == t - windowMinutes
        ids == {i \in DOMAIN tab : tab[i].user_id = userId /\ tab[i].window_start >= windowStart}
        data == IF lookupError THEN NoRow ELSE Single(tab, ids)
    IN  IF data = NoRow
        THEN [allowed |-> TRUE, remaining |-> maxRequests - 1, tokensRemaining |-> maxTokens]
        ELSE [allowed |-> data.request_count <= maxRequests /\ data.token_count < maxTokens,
              remaining |-> IF maxRequests - data.request_count > 0
                            THEN maxRequests - data.request_count ELSE 0,
              tokensRemaining |-> IF maxTokens - data.token_count > 0
                                  THEN maxTokens - data.token_count ELSE 0]

\* checkLimit that refuses the request when the lookup returns an error
SupabaseRateLimitModel_checkLimit_failClosed(tab, t, userId, windowMinutes, maxRequests, maxTokens, lookupError) ==
    LET windowStart == t - windowMinutes
        ids == {i \in DOMAIN tab : tab[i].user_id = userId /\ tab[i].window_start >= windowStart}
        data == Single(tab, ids)
    IN  IF lookupError
        THEN [allowed |-> FALSE, remaining |-> 0, tokensRemaining |-> 0]
        ELSE IF data = NoRow
        THEN [allowed |-> TRUE, remaining |-> maxRequests - 1, tokensRemaining |-> maxTokens]
        ELSE [allowed |-> data.request_count < maxRequests /\ data.token_count < maxTokens,
              remaining |-> IF maxRequests - data.request_count > 0
                            THEN maxRequests - data.request_count ELSE 0,
              tokensRemaining |-> IF maxTokens - data.token_count > 0
                                  THEN maxTokens - data.token_count ELSE 0]

\* SupabaseRateLimitModel.checkLimit
SupabaseRateLimitModel_checkLimit(tab, t, userId, windowMinutes, maxRequests, maxTokens, lookupError) ==
    LET windowStart == t - windowMinutes
        ids == {i \in DOMAIN tab : tab[i].user_id = userId /\ tab[i].window_start >= windowStart}
        data == IF lookupError THEN NoRow ELSE Single(tab, ids)
    IN  IF data = NoRow
        THEN [allowed |-> TRUE, remaining |-> maxRequests - 1, tokensRemaining |-> maxTokens]
        ELSE [allowed |-> data.request_count < maxRequests /\ data.token_count < maxTokens,
              remaining |-> IF maxRequests - data.request_count > 0
                            THEN maxRequests - data.request_count ELSE 0,
              tokensRemaining |-> IF maxTokens - data.token_count > 0
                                  THEN maxTokens - data.token_count ELSE 0]

\* SupabaseRateLimitModel.recordUsage, first query: the existing row of the bucket
SupabaseRateLimitModel_selectExisting(tab, userId, windowStart) ==
    Single(tab, {i \in DOMAIN tab : tab[i].user_id = userId /\ tab[i].window_start = windowStart})

\* SupabaseRateLimitModel.recordUsage, second query: update by id with the
\* counts read before, or insert a new row
SupabaseRateLimitModel_write(tab, userId, windowStart, existingRecord, tokensUsed) ==
    IF existingRecord # NoRow
    THEN [tab EXCEPT ![existingRecord.id] =
              [@ EXCEPT !.request_count = existingRecord.request_count + 1,
                        !.token_count = existingRecord.token_count + tokensUsed]]
    ELSE Append(tab, [id |-> Len(tab) + 1, user_id |-> userId, window_start |-> windowStart,
                      request_count |-> 1, token_count |-> tokensUsed])

\* SupabaseRateLimitModel.recordUsage run without interruption
SupabaseRateLimitModel_recordUsage(tab, t, userId, tokensUsed) ==
    SupabaseRateLimitModel_write(tab, userId, HourStart(t),
        SupabaseRateLimitModel_selectExisting(tab, userId, HourStart(t)), tokensUsed)

\* RateLimitModel.checkLimit: the first row the select returns
RateLimitModel_checkLimit(tab, t, userId, windowMinutes, maxRequests, maxTokens, pick) ==
    LET windowStart == t - windowMinutes
        ids == {i \in DOMAIN tab : tab[i].user_id = userId /\ tab[i].window_start >= windowStart}
    IN  IF ids = {}
        THEN [allowed |-> TRUE, remaining |-> maxRequests - 1, tokensRemaining |-> maxTokens]
        ELSE LET currentLimit == tab[pick]
             IN [allowed |-> currentLimit.request_count < maxRequests
                             /\ currentLimit.token_count < maxTokens,
                 remaining |-> IF maxRequests - currentLimit.request_count > 0
                               THEN maxRequests - currentLimit.request_count ELSE 0,
                 tokensRemaining |-> IF maxTokens - currentLimit.token_count > 0
                                     THEN maxTokens - currentLimit.token_count ELSE 0]

\* RateLimitModel.recordUsage, UPDATE statement: every row of the bucket is
\* incremented in place
RateLimitModel_update(tab, userId, windowStart, tokensUsed) ==
    [i \in DOMAIN tab |->
        IF tab[i].user_id = userId /\ tab[i].window_start = windowStart
        THEN [tab[i] EXCEPT !.request_count = @ + 1, !.token_count = @ + tokensUsed]
        ELSE tab[i]]

\* rowCount of that UPDATE
RateLimitModel_rowCount(tab, userId, windowStart) ==
    Cardinality({i \in DOMAIN tab : tab[i].user_id = userId /\ tab[i].window_start = windowStart})

\* RateLimitModel.recordUsage, INSERT statement
RateLimitModel_insert(tab, userId, windowStart, tokensUsed) ==
    Append(tab, [id |-> Len(tab) + 1, user_id |-> userId, window_start |-> windowStart,
                 request_count |-> 1, token_count |-> tokensUsed])

----------------------------------------------------------------------------
(* History helpers *)

\* the completed usages of a user that lie in the hour bucket of t and less
\* than windowMinutes before t
UsagesInWindow(log, userId, t, windowMinutes) ==
    Cardinality({i \in DOMAIN log :
        /\ log[i].userId = userId
        /\ HourStart(log[i].at) = HourStart(t)
        /\ t - log[i].at < windowMinutes})

IdleCall == [pc |-> "idle"]

Null == "null"
Emails == {"alice@example.com", "carol@example.com"}
NoResp == [route |-> "none", stage |-> "idle"]
ReqSlots == {1, 2}    \* request slots of POST /api/chat/stream
ProfileIds == {"uid-alice"}

NoSession == [id |-> Null, email |-> Null]
Sessions == {NoSession,
             [id |-> "uid-alice", email |-> "alice@example.com"],
             [id |-> "uid-bob", email |-> ""]}

\* text is a sequence of characters
Message == <<"h", "i">>
ChunkA == <<"a">>
ChunkB == <<"b", "c", "d", "e">>

NoResult == [content |-> <<>>, tokensUsed |-> 0]
NoLimit == [allowed |-> FALSE, remaining |-> 0, tokensRemaining |-> 0]
NoBudget == [dailyLimitExceeded |-> FALSE, monthlyLimitExceeded |-> FALSE, throws |-> FALSE]

IdleReq ==
    [pc |-> "idle", bodyThrows |-> FALSE, message |-> <<>>, model |-> Null, userId |-> Null,
     isTrialMode |-> FALSE, session |-> NoSession, status |-> 0, userIdentifier |-> Null,
     rateLimit |-> NoLimit, data |-> NoRow, usedToday |-> [requests |-> 0, tokens |-> 0],
     hasApiKey |-> FALSE, budgetChecked |-> FALSE,
     budget |-> NoBudget, trial |-> FALSE, apiKey |-> Null, genModel |-> Null,
     genError |-> Null, sdkCalled |-> FALSE, toYield |-> <<>>, failAfter |-> -1, yielded |-> <<>>,
     fullText |-> <<>>, finalResult |-> NoResult, windowStart |-> 0, existingRecord |-> NoRow,
     events |-> <<>>, closed |-> FALSE, closeCalls |-> 0]

----------------------------------------------------------------------------
(* Sequential use of the Supabase limiter: every call runs to completion *)

LimInit ==
    /\ now = 0
    /\ rate_limits = <<>>
    /\ limits = <<>>
    /\ calls = [c \in 1..NumCalls |-> IdleCall]
    /\ lastCheck = NoCheck
    /\ usageLog = <<>>
    /\ req = [r \in ReqSlots |-> IdleReq]
    /\ profiles = [id \in ProfileIds |-> Null]
    /\ trialKey = Null
    /\ usage_stats = <<>>
    /\ admitted = [u \in UserIds |-> [onRecord |-> 0, count |-> 0]]
    /\ chats = [rows |-> {}, seq |-> 0]
    /\ messages = [rows |-> {}, seq |-> 0]
    /\ users = [e \in Emails |-> <<>>]
    /\ cost_settings = [e \in Emails |-> Null]
    /\ resp = NoResp

Tick(d) ==
    /\ now + d <= MaxTime
    /\ now' = now + d
    /\ lastCheck' = NoCheck
    /\ UNCHANGED <<rate_limits, limits, calls, usageLog>>
    /\ UNCHANGED <<strVars, apiVars>>

RecordUsage(userId, tokensUsed) ==
    /\ Len(usageLog) < MaxLog
    /\ rate_limits' = SupabaseRateLimitModel_recordUsage(rate_limits, now, userId, tokensUsed)
    /\ usageLog' = Append(usageLog, [userId |-> userId, at |-> now, tokensUsed |-> tokensUsed])
    /\ lastCheck' = NoCheck
    /\ UNCHANGED <<now, limits, calls>>
    /\ UNCHANGED <<strVars, apiVars>>

CheckLimit(userId, windowMinutes, maxRequests, maxTokens, lookupError) ==
    /\ lastCheck' =
         [userId |-> userId, windowMinutes |-> windowMinutes,
          maxRequests |-> maxRequests, maxTokens |-> maxTokens, at |-> now,
          lookupError |-> lookupError,
          usedInWindow |-> UsagesInWindow(usageLog, userId, now, windowMinutes),
          result |-> SupabaseRateLimitModel_checkLimit(rate_limits, now, userId,
                         windowMinutes, maxRequests, maxTokens, lookupError)]
    /\ UNCHANGED <<now, rate_limits, limits, calls, usageLog>>
    /\ UNCHANGED <<strVars, apiVars>>

SeqNext ==
    \/ \E d \in TickSteps : Tick(d)
    \/ \E u \in UserIds, k \in TokenChoices : RecordUsage(u, k)
    \/ \E u \in UserIds, w \in WindowChoices, r \in MaxRequestChoices, m \in MaxTokenChoices :
          CheckLimit(u, w, r, m, FALSE)
    \/ \E u \in UserIds, w \in WindowChoices, r \in MaxRequestChoices, m \in MaxTokenChoices :
          CheckLimit(u, w, r, m, TRUE)

SpecSeq == LimInit /\ [][SeqNext]_vars

----------------------------------------------------------------------------
(* Interleaved recordUsage calls: each database query is one step *)

Impls == {"supabase", "orm"}

InFlight == Cardinality({c \in 1..NumCalls : calls[c].pc # "idle"})

\* recordUsage up to and including its first query.  Supabase: the select of
\* the bucket row.  Drizzle: the UPDATE; its SET clause adds a number to a
\* column object in JavaScript, so the statement either acts as the SQL
\* increment it is meant to be or is rejected by the database.
BeginRecord(c, impl, userId, tokensUsed, updateThrows) ==
    /\ calls[c].pc = "idle"
    /\ Len(usageLog) + InFlight < MaxLog
    /\ Len(rate_limits) < MaxRows /\ Len(limits) < MaxRows
    /\ LET windowStart == HourStart(now) IN
       IF impl = "supabase"
       THEN /\ ~updateThrows
            /\ calls' = [calls EXCEPT ![c] =
                 [pc |-> "selected", impl |-> impl, userId |-> userId, tokensUsed |-> tokensUsed,
                  at |-> now, windowStart |-> windowStart,
                  existingRecord |-> SupabaseRateLimitModel_selectExisting(rate_limits, userId, windowStart),
                  rowCount |-> 0]]
            /\ UNCHANGED limits
       ELSE IF updateThrows
       THEN /\ calls' = [calls EXCEPT ![c] =
                 [pc |-> "thrown", impl |-> impl, userId |-> userId, tokensUsed |-> tokensUsed,
                  at |-> now, windowStart |-> windowStart, existingRecord |-> NoRow, rowCount |-> 0]]
            /\ UNCHANGED limits
       ELSE /\ calls' = [calls EXCEPT ![c] =
                 [pc |-> "updated", impl |-> impl, userId |-> userId, tokensUsed |-> tokensUsed,
                  at |-> now, windowStart |-> windowStart, existingRecord |-> NoRow,
                  rowCount |-> RateLimitModel_rowCount(limits, userId, windowStart)]]
            /\ limits' = RateLimitModel_update(limits, userId, windowStart, tokensUsed)
    /\ lastCheck' = NoCheck
    /\ UNCHANGED <<now, rate_limits, usageLog>>
    /\ UNCHANGED <<strVars, apiVars>>

\* recordUsage from its second query to its return
FinishRecord(c, writeError) ==
    /\ calls[c].pc \in {"selected", "updated", "thrown"}
    /\ LET k == calls[c] IN
       /\ IF k.pc = "selected" /\ ~writeError
          THEN rate_limits' = SupabaseRateLimitModel_write(rate_limits, k.userId, k.windowStart,
                                  k.existingRecord, k.tokensUsed)
          ELSE UNCHANGED rate_limits
       /\ IF k.pc = "updated" /\ k.rowCount = 0
          THEN /\ ~writeError
               /\ limits' = RateLimitModel_insert(limits, k.userId, k.windowStart, k.tokensUsed)
          ELSE /\ (k.pc # "selected" => ~writeError)
               /\ UNCHANGED limits
       /\ usageLog' = IF k.pc = "thrown" \/ writeError THEN usageLog
                      ELSE Append(usageLog, [userId |-> k.userId, at |-> k.at,
                                             tokensUsed |-> k.tokensUsed])
    /\ calls' = [calls EXCEPT ![c] = IdleCall]
    /\ lastCheck' = NoCheck
    /\ UNCHANGED now
    /\ UNCHANGED <<strVars, apiVars>>

ConcNext ==
    \/ \E d \in TickSteps : Tick(d)
    \/ \E c \in 1..NumCalls, u \in UserIds, k \in TokenChoices :
          BeginRecord(c, "supabase", u, k, FALSE)
    \/ \E c \in 1..NumCalls, u \in UserIds, k \in TokenChoices, th \in BOOLEAN :
          BeginRecord(c, "orm", u, k, th)
    \/ \E c \in 1..NumCalls, e \in BOOLEAN : FinishRecord(c, e)

SpecConc == LimInit /\ [][ConcNext]_vars

\* two rows of a table for the same user and the same window start
Duplicate(tab) ==
    \E i, j \in DOMAIN tab :
        i # j /\ tab[i].user_id = tab[j].user_id /\ tab[i].window_start = tab[j].window_start

----------------------------------------------------------------------------
(* POST /api/chat/stream: pure parts *)

DAY == 1440                   \* 24 * 60 minutes
TrialMaxRequestsPerDay == 50
TrialMaxTokensPerDay == 1000

\* GeminiService.estimateTokens: Math.ceil(text.length / 4)
estimateTokens(text) == (Len(text) + 3) \div 4

\* SupabaseUsageStatsService.DEFAULT_COST_SETTINGS.costPerToken, in millionths
\* of a dollar (0.000125, 0.000075, 0.0001)
costPerToken ==
    [m \in {"gemini-1.5-pro", "gemini-1.5-flash", "gemini-pro"} |->
        IF m = "gemini-1.5-pro" THEN 125 ELSE IF m = "gemini-1.5-flash" THEN 75 ELSE 100]

\* SupabaseUsageStatsService.calculateCost: (tokens / 1000) * costPerToken with
\* the fallback 0.0001, in billionths of a dollar
SupabaseUsageStatsService_calculateCost(model, tokens) ==
    tokens * (IF model \in DOMAIN costPerToken THEN costPerToken[model] ELSE 100)

\* cents computed by truncation
estimatedCostCents_truncated(model, tokensUsed) ==
    SupabaseUsageStatsService_calculateCost(model, tokensUsed) \div 10000000

\* recordUsage line 72: Math.round(calculateCost(model, tokensUsed) * 100).
\* Exact arithmetic; the double-precision result is the same for every token
\* count below 1160000.
estimatedCostCents(model, tokensUsed) ==
    (2 * SupabaseUsageStatsService_calculateCost(model, tokensUsed) + 10000000) \div 20000000

\* String.prototype.split(' ')
RECURSIVE SplitFrom(_, _, _)
SplitFrom(text, i, word) ==
    IF i > Len(text) THEN <<word>>
    ELSE IF text[i] = " " THEN <<word>> \o SplitFrom(text, i + 1, <<>>)
    ELSE SplitFrom(text, i + 1, Append(word, text[i]))

Split(text) == SplitFrom(text, 1, <<>>)

\* the canned text of the network-check branch (shortened to two words)
MockResponse(prompt) == <<"M", " ">> \o prompt

\* the chunks that branch yields: each word followed by a blank
MockChunks(prompt) ==
    LET words == Split(MockResponse(prompt))
    IN  [i \in 1..Len(words) |-> Append(words[i], " ")]

\* lib/encryption: the stored form of a key and its inverse
encrypt(text) == <<"iv", "tag", text>>
decrypt(encryptedData) == encryptedData[3]

\* SupabaseUserService.hasApiKey
SupabaseUserService_hasApiKey(profs, userId) ==
    userId \in DOMAIN profs /\ profs[userId] # Null

\* SupabaseUserService.getApiKey
SupabaseUserService_getApiKey(profs, userId) ==
    IF userId \in DOMAIN profs /\ profs[userId] # Null THEN decrypt(profs[userId]) ELSE Null

\* JavaScript truthiness of an optional string
Truthy(str) == str # Null /\ str # ""

\* route.ts lines 22-29: the identity the request is accounted to
route_userIdentifier(isTrialMode, userId, session) ==
    IF isTrialMode /\ Truthy(userId) THEN userId
    ELSE IF Truthy(session.email) THEN session.email
    ELSE Null

\* route.ts line 38
route_hasApiKey(profs, isTrialMode, session) ==
    ~isTrialMode /\ Truthy(session.id) /\ SupabaseUserService_hasApiKey(profs, session.id)

\* route.ts line 41: the budget check applies
route_budgetApplies(isTrialMode, session) == ~isTrialMode /\ Truthy(session.email)

\* the early checks with the identity check ahead of the message check
route_earlyStatus_identityFirst(bodyThrows, message, userIdentifier, rateLimit) ==
    IF bodyThrows THEN 500
    ELSE IF userIdentifier = Null THEN 401
    ELSE IF message = <<>> THEN 400
    ELSE IF ~rateLimit.allowed THEN 429
    ELSE 0

\* route.ts lines 17-35: the status that ends the request before admission,
\* 0 when the request is admitted
route_earlyStatus(bodyThrows, message, userIdentifier, rateLimit) ==
    IF bodyThrows THEN 500
    ELSE IF message = <<>> THEN 400
    ELSE IF userIdentifier = Null THEN 401
    ELSE IF ~rateLimit.allowed THEN 429
    ELSE 0

\* the budget check with an exception of checkBudgetLimits answered by 500
route_budgetStatus_failClosed(applies, budget) ==
    IF applies /\ budget.throws THEN 500
    ELSE IF applies /\ budget.dailyLimitExceeded THEN 429
    ELSE IF applies /\ budget.monthlyLimitExceeded THEN 429
    ELSE 0

\* route.ts lines 41-53: the status the budget check produces, 0 to proceed
route_budgetStatus(applies, budget) ==
    IF applies /\ ~budget.throws /\ budget.dailyLimitExceeded THEN 429
    ELSE IF applies /\ ~budget.throws /\ budget.monthlyLimitExceeded THEN 429
    ELSE 0

\* key selection that leaves the requested model in place in trial mode
gemini_selectKey_keepModel(profs, envKey, userEmail, model, isTrialMode) ==
    IF ~isTrialMode
    THEN LET apiKey == SupabaseUserService_getApiKey(profs, userEmail)
         IN  [apiKey |-> apiKey, model |-> model,
              error |-> IF apiKey = Null THEN "No API key configured" ELSE Null]
    ELSE [apiKey |-> envKey, model |-> model,
          error |-> IF envKey = Null THEN "Trial mode not available" ELSE Null]

\* GeminiService.generateStreamingText lines 98-112: key and model selection
gemini_selectKey(profs, envKey, userEmail, model, isTrialMode) ==
    IF ~isTrialMode
    THEN LET apiKey == SupabaseUserService_getApiKey(profs, userEmail)
         IN  [apiKey |-> apiKey, model |-> model,
              error |-> IF apiKey = Null THEN "No API key configured" ELSE Null]
    ELSE [apiKey |-> envKey,
          model |-> IF envKey = Null THEN model ELSE "gemini-1.5-flash",
          error |-> IF envKey = Null THEN "Trial mode not available" ELSE Null]

\* the SSE events
ChunkEvent(chunk) == [type |-> "chunk", chunk |-> chunk, error |-> Null]
DoneEvent == [type |-> "done", chunk |-> <<>>, error |-> Null]
ErrorEvent(msg) == [type |-> "error", chunk |-> <<>>, error |-> msg]

\* a forwarder that puts the new chunk event ahead of the earlier ones
route_enqueueChunk_prepend(q, chunk) ==
    IF q.closed THEN q ELSE [q EXCEPT !.events = <<ChunkEvent(chunk)>> \o @]

\* controller.enqueue on an open stream (route.ts line 74)
route_enqueueChunk(q, chunk) ==
    IF q.closed THEN q ELSE [q EXCEPT !.events = Append(@, ChunkEvent(chunk))]

\* route.ts lines 87-96: the [DONE] event and the close; on a closed
\* controller both enqueue calls throw and nothing is added
route_finish(q) ==
    IF q.closed THEN q
    ELSE [q EXCEPT !.events = Append(@, DoneEvent), !.closed = TRUE, !.closeCalls = @ + 1]

\* usage on record for a user in the day of t
RECURSIVE SumRows(_, _, _, _)
SumRows(tab, userId, t, i) ==
    IF i > Len(tab) THEN [requests |-> 0, tokens |-> 0]
    ELSE LET rest == SumRows(tab, userId, t, i + 1)
         IN  IF tab[i].user_id = userId /\ tab[i].window_start \div DAY = t \div DAY
             THEN [requests |-> rest.requests + tab[i].request_count,
                   tokens |-> rest.tokens + tab[i].token_count]
             ELSE rest

UsedToday(tab, userId, t) == SumRows(tab, userId, t, 1)

----------------------------------------------------------------------------
(* POST /api/chat/stream: the handler, one step per stretch between awaits
   on shared state *)

MaxAdmit == 1         \* requests admitted in one behaviour, one at a time
StreamTickSteps == {60}

ModelChoices == {Null, "gemini-1.5-flash"}
UserIdChoices == {Null, "trial_1"}
ChunkSeqs == {<<>>, <<ChunkA>>, <<ChunkA, ChunkB>>, <<ChunkB, ChunkA>>}
BudgetChoices == [dailyLimitExceeded : BOOLEAN, monthlyLimitExceeded : BOOLEAN, throws : BOOLEAN]

SeedCounts == {<<50, 1000>>, <<100, 100>>, <<1, 10000>>}
SeedTables ==
    {<<>>} \cup
    {<<[id |-> 1, user_id |-> u, window_start |-> 0, request_count |-> k[1], token_count |-> k[2]]>> :
        u \in UserIds, k \in SeedCounts}

Admissions == admitted["trial_1"].count + admitted["alice@example.com"].count

StreamInit ==
    /\ now = 0
    /\ rate_limits \in SeedTables
    /\ limits = <<>>
    /\ calls = [c \in 1..NumCalls |-> IdleCall]
    /\ lastCheck = NoCheck
    /\ usageLog = <<>>
    /\ req = [r \in ReqSlots |-> IdleReq]
    /\ profiles \in [ProfileIds -> {Null, encrypt("AIzaUser")}]
    /\ trialKey \in {Null, "AIzaTrial"}
    /\ usage_stats = <<>>
    /\ admitted = [u \in UserIds |->
          [onRecord |-> UsedToday(rate_limits, u, 0).requests, count |-> 0]]
    /\ chats = [rows |-> {}, seq |-> 0]
    /\ messages = [rows |-> {}, seq |-> 0]
    /\ users = [e \in Emails |-> <<>>]
    /\ cost_settings = [e \in Emails |-> Null]
    /\ resp = NoResp

\* route.ts lines 13-35: session, body, message and identity checks, rate check
Receive(r, maxAdmit, bodyThrows, message, model, userId, isTrialMode, session, lookupError) ==
    /\ req[r].pc = "idle"
    /\ LET ident == route_userIdentifier(isTrialMode, userId, session)
           ids == {i \in DOMAIN rate_limits :
                      /\ rate_limits[i].user_id = ident
                      /\ rate_limits[i].window_start >= now - DefaultWindowMinutes}
           reached == ~bodyThrows /\ message # <<>> /\ ident # Null
           rl == IF reached
                 THEN SupabaseRateLimitModel_checkLimit(rate_limits, now, ident,
                          DefaultWindowMinutes, DefaultMaxRequests, DefaultMaxTokens, lookupError)
                 ELSE NoLimit
           st == route_earlyStatus(bodyThrows, message, ident, rl)
       IN
       /\ (~reached => ~lookupError)
       /\ (st = 0 => Admissions < maxAdmit)
       /\ req' = [req EXCEPT ![r] =
            [IdleReq EXCEPT
               !.pc = IF st = 0 THEN "admitted" ELSE "done",
               !.bodyThrows = bodyThrows,
               !.message = message,
               !.model = IF model = Null THEN "gemini-1.5-pro" ELSE model,
               !.userId = userId,
               !.isTrialMode = isTrialMode,
               !.session = session,
               !.status = st,
               !.userIdentifier = IF bodyThrows \/ message = <<>> THEN Null ELSE ident,
               !.rateLimit = rl,
               !.data = IF reached /\ ~lookupError THEN Single(rate_limits, ids) ELSE NoRow,
               !.usedToday = IF reached THEN UsedToday(rate_limits, ident, now)
                             ELSE [requests |-> 0, tokens |-> 0]]]
       /\ admitted' = IF st = 0 THEN [admitted EXCEPT ![ident].count = @ + 1] ELSE admitted
    /\ UNCHANGED <<profiles, trialKey, usage_stats>>
    /\ UNCHANGED <<limVars, apiVars>>

\* route.ts lines 38-106: API-key lookup, budget check, the Response is returned
Prepare(r, budget) ==
    /\ req[r].pc = "admitted"
    /\ LET q == req[r]
           applies == route_budgetApplies(q.isTrialMode, q.session)
           has == route_hasApiKey(profiles, q.isTrialMode, q.session)
           st == route_budgetStatus(applies, budget)
       IN
       /\ (~applies => budget = NoBudget)
       /\ req' = [req EXCEPT ![r] =
            [q EXCEPT !.pc = IF st = 0 THEN "streaming" ELSE "done",
                      !.status = IF st = 0 THEN 200 ELSE st,
                      !.hasApiKey = has,
                      !.budgetChecked = applies,
                      !.budget = budget,
                      !.trial = q.isTrialMode \/ ~has]]
    /\ UNCHANGED <<profiles, trialKey, usage_stats, admitted>>
    /\ UNCHANGED <<limVars, apiVars>>

\* first generator.next(): gemini.ts lines 98-137.  A throw is caught by the
\* route's inner catch (line 83), after which [DONE] is sent and the stream closed.
GenStart(r, networkOk, chunks, failAfter) ==
    /\ req[r].pc = "streaming"
    /\ LET q == req[r]
           sel == gemini_selectKey(profiles, trialKey, q.userIdentifier, q.model, q.trial)
       IN
       IF sel.error # Null
       THEN /\ networkOk /\ chunks = <<>> /\ failAfter = -1
            /\ req' = [req EXCEPT ![r] =
                 route_finish([q EXCEPT !.pc = "done", !.genError = sel.error,
                                        !.apiKey = sel.apiKey, !.genModel = sel.model])]
       ELSE IF ~networkOk
       THEN /\ chunks = <<>> /\ failAfter = -1
            /\ req' = [req EXCEPT ![r] =
                 [q EXCEPT !.pc = "mock", !.apiKey = sel.apiKey, !.genModel = sel.model,
                           !.toYield = MockChunks(q.message)]]
       ELSE /\ failAfter \in -1..Len(chunks)
            /\ req' = [req EXCEPT ![r] =
                 [q EXCEPT !.pc = "yielding", !.apiKey = sel.apiKey, !.genModel = sel.model,
                           !.toYield = chunks, !.failAfter = failAfter,
                           !.sdkCalled = TRUE]]
    /\ UNCHANGED <<profiles, trialKey, usage_stats, admitted>>
    /\ UNCHANGED <<limVars, apiVars>>

\* the generator yields a chunk and the route forwards it (route.ts 71-76)
GenChunk(r) ==
    /\ req[r].pc \in {"yielding", "mock"}
    /\ req[r].toYield # <<>>
    /\ req[r].failAfter # Len(req[r].yielded)
    /\ LET q == req[r]
           chunk == Head(q.toYield)
       IN req' = [req EXCEPT ![r] =
            route_enqueueChunk([q EXCEPT !.toYield = Tail(@),
                                         !.yielded = Append(@, chunk),
                                         !.fullText = @ \o chunk], chunk)]
    /\ UNCHANGED <<profiles, trialKey, usage_stats, admitted>>
    /\ UNCHANGED <<limVars, apiVars>>

\* the SDK call or its stream throws; gemini.ts rethrows (line 159), the
\* route's inner catch logs it, then [DONE] and close
GenThrow(r) ==
    /\ req[r].pc = "yielding"
    /\ req[r].failAfter = Len(req[r].yielded)
    /\ req' = [req EXCEPT ![r] =
         route_finish([req[r] EXCEPT !.pc = "done", !.genError = "sdk failure"])]
    /\ UNCHANGED <<profiles, trialKey, usage_stats, admitted>>
    /\ UNCHANGED <<limVars, apiVars>>

\* the generator returns (gemini.ts 128-156) and the route starts
\* recordUsage: its select of the bucket row (route.ts 79-81)
GenReturn(r, statsError) ==
    /\ req[r].pc \in {"yielding", "mock"}
    /\ req[r].toYield = <<>>
    /\ req[r].failAfter # Len(req[r].yielded)
    /\ LET q == req[r]
           content == IF q.pc = "mock" THEN MockResponse(q.message) ELSE q.fullText
           tokensUsed == estimateTokens(q.message \o content)
           records == q.pc = "yielding" /\ ~q.trial
           windowStart == HourStart(now)
       IN
       /\ IF records /\ ~statsError
          THEN /\ Len(usage_stats) < MaxStats
               /\ usage_stats' = Append(usage_stats,
                     [user_id |-> q.userIdentifier, model |-> q.genModel,
                      tokens_used |-> tokensUsed,
                      estimated_cost |-> estimatedCostCents(q.genModel, tokensUsed),
                      request_type |-> "chat"])
          ELSE /\ (~records => ~statsError)
               /\ UNCHANGED usage_stats
       /\ req' = [req EXCEPT ![r] =
            [q EXCEPT !.pc = "recording",
                      !.finalResult = [content |-> content, tokensUsed |-> tokensUsed],
                      !.windowStart = windowStart,
                      !.existingRecord = SupabaseRateLimitModel_selectExisting(rate_limits,
                                             q.userIdentifier, windowStart)]]
    /\ UNCHANGED <<profiles, trialKey, admitted>>
    /\ UNCHANGED <<limVars, apiVars>>

\* recordUsage writes the row (supabase-chat.ts 274-301), then the route
\* sends [DONE] and closes the stream (route.ts 87-88)
RecordWrite(r, writeError) ==
    /\ req[r].pc = "recording"
    /\ LET q == req[r] IN
       /\ rate_limits' = IF writeError THEN rate_limits
                         ELSE SupabaseRateLimitModel_write(rate_limits, q.userIdentifier,
                                  q.windowStart, q.existingRecord, q.finalResult.tokensUsed)
       /\ req' = [req EXCEPT ![r] = route_finish([q EXCEPT !.pc = "done"])]
    /\ UNCHANGED <<now, limits, calls, lastCheck, usageLog>>
    /\ UNCHANGED <<profiles, trialKey, usage_stats, admitted>>
    /\ UNCHANGED apiVars

\* the response has been delivered; the slot serves the next request
Retire(r) ==
    /\ req[r].pc = "done"
    /\ req' = [req EXCEPT ![r] = IdleReq]
    /\ UNCHANGED <<profiles, trialKey, usage_stats, admitted>>
    /\ UNCHANGED <<limVars, apiVars>>

ReceiveAny(r) ==
    \/ \E s \in Sessions : Receive(r, MaxAdmit, TRUE, <<>>, Null, Null, FALSE, s, FALSE)
    \/ \E m \in {<<>>, Message}, mo \in ModelChoices, u \in UserIdChoices, t \in BOOLEAN,
          s \in Sessions, e \in BOOLEAN :
          Receive(r, MaxAdmit, FALSE, m, mo, u, t, s, e)

Generate(r) ==
    \/ \E n \in BOOLEAN, ch \in ChunkSeqs, f \in -1..2 : GenStart(r, n, ch, f)
    \/ GenChunk(r)
    \/ GenThrow(r)
    \/ \E e \in BOOLEAN : GenReturn(r, e)
    \/ \E e \in BOOLEAN : RecordWrite(r, e)

StreamNext ==
    \/ \E d \in StreamTickSteps : Tick(d)
    \/ ReceiveAny(1)
    \/ \E b \in BudgetChoices : Prepare(1, b)
    \/ Generate(1)
    \/ Retire(1)

SpecStream == StreamInit /\ [][StreamNext]_vars

----------------------------------------------------------------------------
(* Two requests of one user in flight at the same time *)

RaceUsers == {[userId |-> "trial_1", isTrialMode |-> TRUE, session |-> NoSession],
              [userId |-> Null, isTrialMode |-> FALSE,
               session |-> [id |-> "uid-alice", email |-> "alice@example.com"]]}

RaceSeedTables ==
    {<<>>} \cup
    {<<[id |-> 1, user_id |-> u, window_start |-> 0, request_count |-> k, token_count |-> k]>> :
        u \in UserIds, k \in {DefaultMaxRequests - 1, DefaultMaxRequests}}

RaceInit ==
    /\ now = 0
    /\ rate_limits \in RaceSeedTables
    /\ limits = <<>>
    /\ calls = [c \in 1..NumCalls |-> IdleCall]
    /\ lastCheck = NoCheck
    /\ usageLog = <<>>
    /\ req = [r \in ReqSlots |-> IdleReq]
    /\ profiles = [id \in ProfileIds |-> Null]
    /\ trialKey \in {Null, "AIzaTrial"}
    /\ usage_stats = <<>>
    /\ admitted = [u \in UserIds |->
          [onRecord |-> UsedToday(rate_limits, u, 0).requests, count |-> 0]]
    /\ chats = [rows |-> {}, seq |-> 0]
    /\ messages = [rows |-> {}, seq |-> 0]
    /\ users = [e \in Emails |-> <<>>]
    /\ cost_settings = [e \in Emails |-> Null]
    /\ resp = NoResp

RaceNext ==
    \/ \E d \in StreamTickSteps : Tick(d)
    \/ \E r \in ReqSlots, u \in RaceUsers :
          Receive(r, Cardinality(ReqSlots), FALSE, Message, Null,
                  u.userId, u.isTrialMode, u.session, FALSE)
    \/ \E r \in ReqSlots : Prepare(r, NoBudget)
    \/ \E r \in ReqSlots, n \in BOOLEAN : GenStart(r, n, <<>>, -1)
    \/ \E r \in ReqSlots : GenStart(r, TRUE, <<ChunkA>>, 1)
    \/ \E r \in ReqSlots : GenChunk(r)
    \/ \E r \in ReqSlots : GenThrow(r)
    \/ \E r \in ReqSlots : GenReturn(r, FALSE)
    \/ \E r \in ReqSlots : RecordWrite(r, FALSE)

SpecRace == RaceInit /\ [][RaceNext]_vars

----------------------------------------------------------------------------
(* The session-guarded CRUD routes: database layer.  A handler threads the
   database db through the queries it makes; db.ops counts the queries. *)

MaxChats == 1
MaxMsgs == 1
MaxRecorded == 2

NoUser == <<"absent">>     \* no users row for the email
NoKey == <<>>              \* users.api_key_enc is null
NoChat == [id |-> 0]
DefaultTitle == "Chat today"
Reply == <<"o", "k">>
ScriptCommand == <<"/", "s", "c", "r", "i", "p", "t", " ", "x">>
ScriptPrefix == <<"/", "s", "c", "r", "i", "p", "t", " ">>

ApiSessions == Sessions \cup {[id |-> "uid-carol", email |-> "carol@example.com"]}

ApiDb ==
    [chats |-> chats, messages |-> messages, limits |-> limits, users |-> users,
     usage_stats |-> usage_stats, cost_settings |-> cost_settings, ops |-> 0]

\* one more query sent to the database
Query(db) == [db EXCEPT !.ops = @ + 1]

\* ChatModel.create
ChatModel_create(db, userId, title, model) ==
    LET chat == [id |-> db.chats.seq + 1, user_id |-> userId, title |-> title, model |-> model]
    IN  [db |-> [Query(db) EXCEPT !.chats = [rows |-> @.rows \cup {chat}, seq |-> chat.id]],
         ret |-> chat]

\* ChatModel.getUserChats
ChatModel_getUserChats(db, userId) ==
    [db |-> Query(db), ret |-> {c \in db.chats.rows : c.user_id = userId}]

\* ChatModel.getById
ChatModel_getById(db, chatId, userId) ==
    LET found == {c \in db.chats.rows : c.id = chatId /\ c.user_id = userId}
    IN  [db |-> Query(db), ret |-> IF found = {} THEN NoChat ELSE CHOOSE c \in found : TRUE]

\* ChatModel.delete: the messages of chatId go first, whoever owns the chat
ChatModel_delete(db, chatId, userId) ==
    LET kept == {m \in db.messages.rows : m.chat_id # chatId}
        mine == {c \in db.chats.rows : c.id = chatId /\ c.user_id = userId}
    IN  [db |-> [Query(Query(db)) EXCEPT !.messages.rows = kept, !.chats.rows = @ \ mine],
         ret |-> mine # {}]

\* ChatModel.updateTitle
ChatModel_updateTitle(db, chatId, userId, title) ==
    LET mine == {c \in db.chats.rows : c.id = chatId /\ c.user_id = userId}
    IN  [db |-> [Query(db) EXCEPT !.chats.rows =
                    (@ \ mine) \cup {[c EXCEPT !.title = title] : c \in mine}],
         ret |-> mine # {}]

\* MessageModel.create
MessageModel_create(db, chatId, role, content, tokenUsed) ==
    LET message == [id |-> db.messages.seq + 1, chat_id |-> chatId, role |-> role,
                    content |-> content, token_used |-> tokenUsed]
    IN  [db |-> [Query(db) EXCEPT !.messages = [rows |-> @.rows \cup {message},
                                                 seq |-> message.id]],
         ret |-> message]

\* MessageModel.getChatMessages
MessageModel_getChatMessages(db, chatId) ==
    [db |-> Query(db), ret |-> {m \in db.messages.rows : m.chat_id = chatId}]

\* the row the select of RateLimitModel.checkLimit returns first
PickRow(tab, t, userId, windowMinutes, pickLast) ==
    LET ids == {i \in DOMAIN tab : tab[i].user_id = userId /\ tab[i].window_start >= t - windowMinutes}
    IN  IF ids = {} THEN 0
        ELSE IF pickLast THEN CHOOSE i \in ids : \A j \in ids : j <= i
        ELSE CHOOSE i \in ids : \A j \in ids : i <= j

\* RateLimitModel.recordUsage run without interruption; the UPDATE either
\* increments in the database or throws (updateThrows)
RateLimitModel_recordUsage(db, t, userId, tokensUsed, updateThrows) ==
    LET windowStart == HourStart(t) IN
    IF updateThrows THEN [db |-> db, ret |-> "error"]
    ELSE IF RateLimitModel_rowCount(db.limits, userId, windowStart) > 0
    THEN [db |-> [Query(db) EXCEPT !.limits =
                     RateLimitModel_update(@, userId, windowStart, tokensUsed)],
          ret |-> Null]
    ELSE [db |-> [Query(Query(db)) EXCEPT !.limits =
                     RateLimitModel_insert(@, userId, windowStart, tokensUsed)],
          ret |-> Null]

\* ApiKeyService.hasApiKey
ApiKeyService_hasApiKey(db, userEmail) ==
    [db |-> Query(db),
     ret |-> userEmail \in DOMAIN db.users /\ db.users[userEmail] \notin {NoUser, NoKey}]

\* the characters of the keys the model names
ApiKeyText(apiKey) ==
    LET AIza == <<"A", "I", "z", "a">>
        us(n) == [i \in 1..n |-> "u"]
    IN  CASE apiKey = "AIzaUser" -> AIza \o us(35)
          [] apiKey = "AIzaOther" -> AIza \o <<"0", "9", "A", "Z", "a", "z", "-", "_">> \o us(27)
          [] apiKey = "AIzaShort" -> AIza \o us(34)
          [] apiKey = "AIzaLong" -> AIza \o us(36)
          [] apiKey = "AIzaBang" -> AIza \o us(34) \o <<"!">>
          [] apiKey = "AIzaLine" -> AIza \o us(35) \o <<"\n">>
          [] apiKey = "aizaLower" -> <<"a", "i", "z", "a">> \o us(35)
          [] apiKey = "bad" -> <<"b", "a", "d">>
          [] apiKey = Null -> <<"n", "u", "l", "l">>
          [] OTHER -> <<>>

\* the character class [0-9A-Za-z-_]
KeyChars ==
    {"0", "1", "2", "3", "4", "5", "6", "7", "8", "9", "-", "_"} \cup
    {"A", "B", "C", "D", "E", "F", "G", "H", "I", "J", "K", "L", "M",
     "N", "O", "P", "Q", "R", "S", "T", "U", "V", "W", "X", "Y", "Z"} \cup
    {"a", "b", "c", "d", "e", "f", "g", "h", "i", "j", "k", "l", "m",
     "n", "o", "p", "q", "r", "s", "t", "u", "v", "w", "x", "y", "z"}

\* lib/encryption isValidApiKey: /^AIza[0-9A-Za-z-_]{35}$/.test(apiKey), matched
\* from the left: the literal, then 35 characters of the class, then the end
isValidApiKey(apiKey) ==
    LET text == ApiKeyText(apiKey)
        RECURSIVE Class(_, _)
        Class(i, n) ==
            IF n = 0 THEN i = Len(text) + 1
            ELSE i <= Len(text) /\ text[i] \in KeyChars /\ Class(i + 1, n - 1)
    IN  /\ Len(text) >= 4
        /\ text[1] = "A" /\ text[2] = "I" /\ text[3] = "z" /\ text[4] = "a"
        /\ Class(5, 35)

\* ApiKeyService.validateApiKeyFormat
ApiKeyService_validateApiKeyFormat(apiKey) == Truthy(apiKey) /\ isValidApiKey(apiKey)

\* storeApiKey without its format check
ApiKeyService_storeApiKey_unchecked(db, userEmail, apiKey) ==
    IF userEmail \in DOMAIN db.users /\ db.users[userEmail] # NoUser
    THEN [db |-> [Query(db) EXCEPT !.users[userEmail] = encrypt(apiKey)], ret |-> TRUE,
          err |-> Null]
    ELSE [db |-> Query(db), ret |-> FALSE, err |-> Null]

\* ApiKeyService.storeApiKey: ret is rowCount > 0; err is the error thrown
ApiKeyService_storeApiKey(db, userEmail, apiKey) ==
    IF ~isValidApiKey(apiKey)
    THEN [db |-> db, ret |-> FALSE, err |-> "Invalid Google API key format"]
    ELSE IF userEmail \in DOMAIN db.users /\ db.users[userEmail] # NoUser
    THEN [db |-> [Query(db) EXCEPT !.users[userEmail] = encrypt(apiKey)], ret |-> TRUE,
          err |-> Null]
    ELSE [db |-> Query(db), ret |-> FALSE, err |-> Null]

\* ApiKeyService.getApiKey
ApiKeyService_getApiKey(db, userEmail) ==
    [db |-> Query(db),
     ret |-> IF userEmail \in DOMAIN db.users /\ db.users[userEmail] \notin {NoUser, NoKey}
             THEN decrypt(db.users[userEmail]) ELSE Null]

\* ApiKeyService.deleteApiKey
ApiKeyService_deleteApiKey(db, userEmail) ==
    IF userEmail \in DOMAIN db.users /\ db.users[userEmail] # NoUser
    THEN [db |-> [Query(db) EXCEPT !.users[userEmail] = NoKey], ret |-> TRUE]
    ELSE [db |-> Query(db), ret |-> FALSE]

\* no cost_settings in the profile, or no settings in the request body
NoSettings == [absent |-> TRUE]

\* SupabaseUsageStatsService.DEFAULT_COST_SETTINGS (budgets in dollars)
DEFAULT_COST_SETTINGS == [monthlyBudget |-> 100, dailyBudget |-> 10, alertThreshold |-> 80]

\* object spread { ...a, ...b }: the keys b sets override those of a
Spread(a, b) == [k \in DOMAIN a \cup DOMAIN b |-> IF k \in DOMAIN b THEN b[k] ELSE a[k]]

\* SupabaseUsageStatsService.getUserCostSettings
SupabaseUsageStatsService_getUserCostSettings(db, userEmail) ==
    [db |-> Query(db),
     ret |-> IF userEmail \in DOMAIN db.cost_settings /\ db.cost_settings[userEmail] # NoSettings
             THEN Spread(DEFAULT_COST_SETTINGS, db.cost_settings[userEmail])
             ELSE DEFAULT_COST_SETTINGS]

\* SupabaseUsageStatsService.updateUserCostSettings
SupabaseUsageStatsService_updateUserCostSettings(db, userEmail, settings, updateError) ==
    LET current == SupabaseUsageStatsService_getUserCostSettings(db, userEmail) IN
    IF updateError THEN [db |-> Query(current.db), ret |-> "error"]
    ELSE [db |-> [Query(current.db) EXCEPT !.cost_settings =
                     IF userEmail \in DOMAIN @
                     THEN [@ EXCEPT ![userEmail] = Spread(current.ret, settings)] ELSE @],
          ret |-> Null]

\* SupabaseUsageStatsService.recordUsage: the insert, whose error is only logged
SupabaseUsageStatsService_recordUsage(db, userEmail, model, tokensUsed, requestType, statsError) ==
    IF statsError THEN Query(db)
    ELSE [Query(db) EXCEPT !.usage_stats = Append(@,
             [user_id |-> userEmail, model |-> model, tokens_used |-> tokensUsed,
              estimated_cost |-> estimatedCostCents(model, tokensUsed),
              request_type |-> requestType])]

----------------------------------------------------------------------------
(* The CRUD routes: services *)

TrialUserIds == {"trial_1"}

\* TrialModeService.isTrialUser: userId.startsWith('trial_')
isTrialUser(userId) == userId \in TrialUserIds

\* String.prototype.startsWith
StartsWith(text, prefix) ==
    Len(text) >= Len(prefix) /\ SubSeq(text, 1, Len(prefix)) = prefix

\* command.replace(/^\/script\s+/, '')
StripScript(command) ==
    IF StartsWith(command, ScriptPrefix)
    THEN SubSeq(command, Len(ScriptPrefix) + 1, Len(command)) ELSE command

\* the prompt of GeminiService.generateScript (template shortened to one mark)
ScriptPrompt(command) == <<"G">> \o command

\* the assistant text the messages route builds around a script
ScriptAnswer(script) == <<"H">> \o script

\* generateText rethrows every error as 'Gemini API error: <message>'
GeminiError(msg) ==
    CASE msg = "No API key configured" -> "Gemini API error: No API key configured"
      [] msg = "Trial mode not available" -> "Gemini API error: Trial mode not available"
      [] OTHER -> "Gemini API error: generateContent failed"

Failed(msg, db) ==
    [db |-> db, err |-> msg, content |-> <<>>, tokensUsed |-> 0, sdkCalled |-> FALSE]

\* GeminiService.generateText; e.gen is what the network check and the SDK do
GeminiService_generateText(db, t, profs, envKey, userEmail, prompt, model, isTrialMode, e) ==
    LET sel == gemini_selectKey(profs, envKey, userEmail, model, isTrialMode)
        db1 == IF isTrialMode THEN db ELSE Query(db)
        mock == MockResponse(prompt)
        tokensUsed == estimateTokens(prompt \o Reply)
    IN  IF sel.error # Null THEN Failed(GeminiError(sel.error), db1)
        ELSE IF e.gen = "mock"
        THEN [db |-> db1, err |-> Null, content |-> mock,
              tokensUsed |-> estimateTokens(prompt \o mock), sdkCalled |-> FALSE]
        ELSE IF e.gen = "throw" THEN [Failed(GeminiError("sdk"), db1) EXCEPT !.sdkCalled = TRUE]
        ELSE IF isTrialMode /\ isTrialUser(userEmail)
        THEN LET ru == RateLimitModel_recordUsage(db1, t, userEmail, tokensUsed, e.updateThrows)
             IN  IF ru.ret = "error"
                 THEN [Failed(GeminiError("recordUsage"), ru.db) EXCEPT !.sdkCalled = TRUE]
                 ELSE [db |-> ru.db, err |-> Null, content |-> Reply,
                       tokensUsed |-> tokensUsed, sdkCalled |-> TRUE]
        ELSE [db |-> IF isTrialMode THEN db1
                     ELSE SupabaseUsageStatsService_recordUsage(db1, userEmail, sel.model,
                              tokensUsed, "chat", e.statsError),
              err |-> Null, content |-> Reply, tokensUsed |-> tokensUsed, sdkCalled |-> TRUE]

\* GeminiService.generateScript
GeminiService_generateScript(db, t, profs, envKey, userEmail, command, model, isTrialMode, e) ==
    LET result == GeminiService_generateText(db, t, profs, envKey, userEmail,
                      ScriptPrompt(command), model, isTrialMode, e)
    IN  IF result.err # Null \/ isTrialMode THEN result
        ELSE [result EXCEPT !.db = SupabaseUsageStatsService_recordUsage(result.db, userEmail,
                                       model, result.tokensUsed, "script", e.statsError)]

NoMessage == [id |-> 0]

Thrown(msg, db) ==
    [db |-> db, err |-> msg, userMessage |-> NoMessage, assistantMessage |-> NoMessage]

\* ChatService.sendMessage (with callGeminiAPI)
ChatService_sendMessage(db, t, profs, envKey, userId, chatId, content, model, e) ==
    LET rateLimit == RateLimitModel_checkLimit(db.limits, t, userId, DefaultWindowMinutes,
                         DefaultMaxRequests, DefaultMaxTokens,
                         PickRow(db.limits, t, userId, DefaultWindowMinutes, e.pickLast))
        chat == ChatModel_getById(Query(db), chatId, userId)
        userMessage == MessageModel_create(chat.db, chatId, "user", content, 0)
        hasApiKey == ApiKeyService_hasApiKey(userMessage.db, userId)
        assistantResponse == GeminiService_generateText(hasApiKey.db, t, profs, envKey, userId,
                                 content, model, ~hasApiKey.ret, e)
        assistantMessage == MessageModel_create(assistantResponse.db, chatId, "assistant",
                                assistantResponse.content, assistantResponse.tokensUsed)
        recorded == RateLimitModel_recordUsage(assistantMessage.db, t, userId,
                        assistantResponse.tokensUsed, e.updateThrows)
    IN  IF ~rateLimit.allowed THEN Thrown("Rate limit exceeded. Please try again later.", Query(db))
        ELSE IF chat.ret = NoChat THEN Thrown("Chat not found", chat.db)
        ELSE IF assistantResponse.err # Null THEN Thrown(assistantResponse.err, assistantResponse.db)
        ELSE IF recorded.ret = "error" THEN Thrown("recordUsage", recorded.db)
        ELSE [db |-> recorded.db, err |-> Null, userMessage |-> userMessage.ret,
              assistantMessage |-> assistantMessage.ret]

\* ChatService.getChatWithMessages
ChatService_getChatWithMessages(db, chatId, userId) ==
    LET chat == ChatModel_getById(db, chatId, userId)
        msgs == MessageModel_getChatMessages(chat.db, chatId)
    IN  IF chat.ret = NoChat THEN [db |-> chat.db, ret |-> [chat |-> NoChat, messages |-> {}]]
        ELSE [db |-> msgs.db, ret |-> [chat |-> chat.ret, messages |-> msgs.ret]]

\* ScriptService.generateScript (with generateWithGemini)
ScriptService_generateScript(db, t, profs, envKey, userId, command, model, e) ==
    LET rateLimit == RateLimitModel_checkLimit(db.limits, t, userId, DefaultWindowMinutes,
                         DefaultMaxRequests, DefaultMaxTokens,
                         PickRow(db.limits, t, userId, DefaultWindowMinutes, e.pickLast))
        hasApiKey == ApiKeyService_hasApiKey(Query(db), userId)
        script == GeminiService_generateScript(hasApiKey.db, t, profs, envKey, userId,
                      StripScript(command), model, ~hasApiKey.ret, e)
        recorded == RateLimitModel_recordUsage(script.db, t, userId, script.tokensUsed,
                        e.updateThrows)
    IN  IF ~rateLimit.allowed
        THEN [db |-> Query(db), err |-> "Rate limit exceeded. Please try again later.", content |-> <<>>]
        ELSE IF script.err # Null THEN [db |-> script.db, err |-> script.err, content |-> <<>>]
        ELSE IF recorded.ret = "error" THEN [db |-> recorded.db, err |-> "recordUsage", content |-> <<>>]
        ELSE [db |-> recorded.db, err |-> Null, content |-> script.content]

----------------------------------------------------------------------------
(* The CRUD routes: handlers.  Each returns the database it leaves, the
   status and the body of the response. *)

NaN == -1
IdChoices == {"1", "abc"}
NoId == "-"       \* the route has no path parameter

\* parseInt on the path parameter
parseInt(id) == CASE id = "1" -> 1 [] id = "2" -> 2 [] id = "3" -> 3 [] OTHER -> NaN

Response(db, status, body) == [db |-> db, status |-> status, body |-> body]

\* a guard that only turns away requests without any session
Unauthorized_noSessionOnly(session) == session = NoSession

\* if (!session?.user?.email)
Unauthorized(session) == ~Truthy(session.email)

\* GET /api/chats
route_chats_GET(db, session) ==
    IF Unauthorized(session) THEN Response(db, 401, "Unauthorized")
    ELSE LET r == ChatModel_getUserChats(db, session.email)
         IN  Response(r.db, 200, r.ret)

\* POST /api/chats (with ChatService.createChat)
route_chats_POST(db, session, bodyThrows, title, model) ==
    IF Unauthorized(session) THEN Response(db, 401, "Unauthorized")
    ELSE IF bodyThrows THEN Response(db, 500, "Failed to create chat")
    ELSE IF ~Truthy(model) THEN Response(db, 400, "Model is required")
    ELSE LET r == ChatModel_create(db, session.email,
                      IF Truthy(title) THEN title ELSE DefaultTitle, model)
         IN  Response(r.db, 201, r.ret)

\* GET /api/chats/[id]
route_chat_GET(db, session, id) ==
    IF Unauthorized(session) THEN Response(db, 401, "Unauthorized")
    ELSE IF parseInt(id) = NaN THEN Response(db, 400, "Invalid chat ID")
    ELSE LET r == ChatService_getChatWithMessages(db, parseInt(id), session.email)
         IN  IF r.ret.chat = NoChat THEN Response(r.db, 404, "Chat not found")
             ELSE Response(r.db, 200, r.ret)

\* DELETE /api/chats/[id] (with ChatService.deleteChat)
route_chat_DELETE(db, session, id) ==
    IF Unauthorized(session) THEN Response(db, 401, "Unauthorized")
    ELSE IF parseInt(id) = NaN THEN Response(db, 400, "Invalid chat ID")
    ELSE LET r == ChatModel_delete(db, parseInt(id), session.email)
         IN  IF ~r.ret THEN Response(r.db, 404, "Chat not found")
             ELSE Response(r.db, 200, "success")

\* PATCH /api/chats/[id] (with ChatService.updateChatTitle)
route_chat_PATCH(db, session, id, bodyThrows, title) ==
    IF Unauthorized(session) THEN Response(db, 401, "Unauthorized")
    ELSE IF parseInt(id) = NaN THEN Response(db, 400, "Invalid chat ID")
    ELSE IF bodyThrows THEN Response(db, 500, "Failed to update chat")
    ELSE IF ~Truthy(title) THEN Response(db, 400, "Title is required")
    ELSE LET r == ChatModel_updateTitle(db, parseInt(id), session.email, title)
         IN  IF ~r.ret THEN Response(r.db, 404, "Chat not found")
             ELSE Response(r.db, 200, "success")

\* POST /api/chats/[id]/messages up to the end of a regular message or of
\* ScriptService.generateScript; e is what the environment does during the
\* generation.  Status 0: the script path goes on with its two sendMessage calls
route_messages_POST(db, t, profs, envKey, session, id, bodyThrows, content, model, e) ==
    LET chatId == parseInt(id)
        m == IF Truthy(model) THEN model ELSE "gemini-1.5-pro"
    IN
    IF Unauthorized(session) THEN Response(db, 401, "Unauthorized")
    ELSE IF chatId = NaN THEN Response(db, 400, "Invalid chat ID")
    ELSE IF bodyThrows THEN Response(db, 500, "Failed to send message")
    ELSE IF content = <<>> THEN Response(db, 400, "Content is required")
    ELSE IF StartsWith(content, ScriptPrefix)
    THEN LET script == ScriptService_generateScript(db, t, profs, envKey, session.email,
                           content, m, e)
         IN  IF script.err # Null THEN Response(script.db, 500, script.err)
             ELSE Response(script.db, 0, script.content)
    ELSE LET result == ChatService_sendMessage(db, t, profs, envKey, session.email, chatId,
                           content, m, e)
         IN  IF result.err # Null THEN Response(result.db, 500, result.err)
             ELSE Response(result.db, 200, <<result.userMessage, result.assistantMessage>>)

\* the script path, lines 44-49: sendMessage with the command as content
route_messages_POST_userMessage(db, t, profs, envKey, session, id, content, model, e) ==
    LET m == IF Truthy(model) THEN model ELSE "gemini-1.5-pro"
        userMessage == ChatService_sendMessage(db, t, profs, envKey, session.email,
                           parseInt(id), content, m, e)
    IN  IF userMessage.err # Null THEN Response(userMessage.db, 500, userMessage.err)
        ELSE Response(userMessage.db, 0, userMessage.userMessage)

\* the script path, lines 52-61: sendMessage with the script as content, and
\* the response
route_messages_POST_assistantMessage(db, t, profs, envKey, session, id, script, model, userMessage, e) ==
    LET m == IF Truthy(model) THEN model ELSE "gemini-1.5-pro"
        assistantMessage == ChatService_sendMessage(db, t, profs, envKey, session.email,
                                parseInt(id), ScriptAnswer(script), m, e)
    IN  IF assistantMessage.err # Null
        THEN Response(assistantMessage.db, 500, assistantMessage.err)
        ELSE Response(assistantMessage.db, 200,
                      <<userMessage, assistantMessage.assistantMessage>>)

\* GET /api/user/api-key
route_apiKey_GET(db, session) ==
    IF Unauthorized(session) THEN Response(db, 401, "Unauthorized")
    ELSE LET r == ApiKeyService_hasApiKey(db, session.email)
         IN  Response(r.db, 200, r.ret)

\* POST /api/user/api-key (testApiKey only validates the format again)
route_apiKey_POST(db, session, bodyThrows, apiKey) ==
    IF Unauthorized(session) THEN Response(db, 401, "Unauthorized")
    ELSE IF bodyThrows THEN Response(db, 500, "Failed to store API key")
    ELSE IF ~ApiKeyService_validateApiKeyFormat(apiKey) THEN Response(db, 400, "Invalid key")
    ELSE LET r == ApiKeyService_storeApiKey(db, session.email, apiKey)
         IN  IF ~r.ret THEN Response(r.db, 500, "Failed to store API key")
             ELSE Response(r.db, 200, "success")

\* DELETE /api/user/api-key
route_apiKey_DELETE(db, session) ==
    IF Unauthorized(session) THEN Response(db, 401, "Unauthorized")
    ELSE LET r == ApiKeyService_deleteApiKey(db, session.email)
         IN  IF ~r.ret THEN Response(r.db, 500, "Failed to delete API key")
             ELSE Response(r.db, 200, "success")

\* the four usage_stats selects of getUserStats
SupabaseUsageStatsService_getUserStats(db, userEmail) ==
    [db |-> Query(Query(Query(Query(db)))),
     ret |-> {i \in DOMAIN db.usage_stats : db.usage_stats[i].user_id = userEmail}]

\* GET /api/usage/stats: getUserStats, getUserAlerts (checkBudgetLimits:
\* getUserStats and getUserCostSettings), getUserCostSettings
route_usageStats_GET(db, session, statsThrows) ==
    IF Unauthorized(session) THEN Response(db, 401, "Unauthorized")
    ELSE LET stats == SupabaseUsageStatsService_getUserStats(db, session.email)
             again == SupabaseUsageStatsService_getUserStats(stats.db, session.email)
             budget == SupabaseUsageStatsService_getUserCostSettings(again.db, session.email)
             settings == SupabaseUsageStatsService_getUserCostSettings(budget.db, session.email)
         IN  IF statsThrows THEN Response(Query(db), 500, "Failed to fetch usage statistics")
             ELSE Response(settings.db, 200, settings.ret)

\* POST /api/usage/stats
route_usageStats_POST(db, session, bodyThrows, settings, updateError) ==
    IF Unauthorized(session) THEN Response(db, 401, "Unauthorized")
    ELSE IF bodyThrows THEN Response(db, 500, "Failed to update cost settings")
    ELSE IF settings = NoSettings THEN Response(db, 400, "Settings are required")
    ELSE LET r == SupabaseUsageStatsService_updateUserCostSettings(db, session.email,
                      settings, updateError)
         IN  IF r.ret = "error" THEN Response(r.db, 500, "Failed to update cost settings")
             ELSE Response(r.db, 200, "success")

----------------------------------------------------------------------------
(* The CRUD routes: one step per request *)

ApiRoutes == {"chats_GET", "chats_POST", "chat_GET", "chat_DELETE", "chat_PATCH",
              "messages_POST", "apiKey_GET", "apiKey_POST", "apiKey_DELETE",
              "usageStats_GET", "usageStats_POST"}
TitleChoices == {Null, "t"}      \* titles a PATCH carries
NewTitleChoices == {Null}        \* new chats are created without a title
ContentChoices == {<<>>, Message, ScriptCommand}
ApiKeyChoices == {Null, "bad", "AIzaUser"}
SettingsChoices == {NoSettings, [dailyBudget |-> 5]}
GenChoices == {"sdk", "mock", "throw"}
\* what the environment does during one generation.  Within one hour at most
\* one limits row matches a user here, and no caller of these routes has a
\* key in profiles, so pickLast and statsError have no effect and stay FALSE
Envs == [gen : GenChoices, updateThrows : BOOLEAN, pickLast : {FALSE}, statsError : {FALSE}]
LimitSeeds ==
    {<<[id |-> 1, user_id |-> "carol@example.com", window_start |-> 0,
              request_count |-> 1, token_count |-> 10000]>>}

\* the usages on record in the limits table
RECURSIVE TotalRequests(_)
TotalRequests(tab) ==
    IF tab = <<>> THEN 0 ELSE Head(tab).request_count + TotalRequests(Tail(tab))

ApiInit ==
    /\ now = 0
    /\ rate_limits = <<>>
    /\ limits \in LimitSeeds
    /\ calls = <<>>
    /\ lastCheck = NoCheck
    /\ usageLog = <<>>
    /\ req = <<>>
    /\ profiles = [p \in ProfileIds |-> Null]
    /\ trialKey = "AIzaTrial"
    /\ usage_stats = <<>>
    /\ admitted = <<>>
    /\ chats = [rows |-> {}, seq |-> 0]
    /\ messages = [rows |-> {}, seq |-> 0]
    /\ users = [e \in Emails |-> IF e = "alice@example.com" THEN NoKey ELSE NoUser]
    /\ cost_settings = [e \in {"alice@example.com"} |-> NoSettings]
    /\ resp = NoResp

\* no request is being handled
Quiet == resp.stage = "idle"

\* the handler has run as far as r: the database is as it left it; resp keeps
\* the status (0 while the handler goes on) and the body of the response, the
\* number of queries made, and
\* the chat the path names with its messages as they were when the request
\* arrived
Proceed(route, session, id, r, stage, pend) ==
    /\ chats' = r.db.chats
    /\ messages' = r.db.messages
    /\ limits' = r.db.limits
    /\ users' = r.db.users
    /\ usage_stats' = r.db.usage_stats
    /\ cost_settings' = r.db.cost_settings
    /\ resp' = [route |-> route, session |-> session, status |-> r.status,
                stage |-> IF r.status = 0 THEN stage ELSE "done",
                pend |-> IF r.status = 0 THEN pend ELSE <<>>,
                body |-> IF r.status = 0 THEN <<>> ELSE r.body,
                ops |-> IF Quiet THEN r.db.ops ELSE resp.ops + r.db.ops,
                wrote |-> (~Quiet /\ resp.wrote) \/ [r.db EXCEPT !.ops = 0] # ApiDb,
                id |-> id,
                chatId |-> parseInt(id),
                chatBefore |-> IF Quiet THEN {c \in chats.rows : c.id = parseInt(id)}
                               ELSE resp.chatBefore,
                messagesBefore |-> IF Quiet THEN {m \in messages.rows : m.chat_id = parseInt(id)}
                                   ELSE resp.messagesBefore]
    /\ UNCHANGED <<now, rate_limits, calls, lastCheck, usageLog>>
    /\ UNCHANGED <<req, profiles, trialKey, admitted>>

\* the response has been delivered; the server takes the next request
Deliver ==
    /\ resp.stage = "done"
    /\ resp' = NoResp
    /\ UNCHANGED <<chats, messages, users, cost_settings>>
    /\ UNCHANGED <<limVars, strVars>>

ChatsGet(session) ==
    /\ Quiet
    /\ Proceed("chats_GET", session, NoId, route_chats_GET(ApiDb, session), "done", <<>>)

ChatsPost(session, bodyThrows, title, model) ==
    /\ chats.seq < MaxChats
    /\ Quiet
    /\ Proceed("chats_POST", session, NoId,
               route_chats_POST(ApiDb, session, bodyThrows, title, model), "done", <<>>)

ChatGet(session, id) ==
    /\ Quiet
    /\ Proceed("chat_GET", session, id, route_chat_GET(ApiDb, session, id), "done", <<>>)

ChatDelete(session, id) ==
    /\ Quiet
    /\ Proceed("chat_DELETE", session, id, route_chat_DELETE(ApiDb, session, id), "done", <<>>)

ChatPatch(session, id, bodyThrows, title) ==
    /\ Quiet
    /\ Proceed("chat_PATCH", session, id, route_chat_PATCH(ApiDb, session, id, bodyThrows, title), "done", <<>>)

MessagesPost(session, id, bodyThrows, content, model, e) ==
    /\ Quiet
    /\ messages.seq < MaxMsgs
    /\ TotalRequests(limits) < MaxRecorded
    /\ LET r == route_messages_POST(ApiDb, now, profiles, trialKey, session, id, bodyThrows,
                                    content, model, e)
       IN  Proceed("messages_POST", session, id, r, "userMessage", <<content, model, r.body>>)

\* messages route, script path: the first sendMessage
ScriptUserMessage(e) ==
    /\ resp.stage = "userMessage"
    /\ LET r == route_messages_POST_userMessage(ApiDb, now, profiles, trialKey, resp.session,
                    resp.id, resp.pend[1], resp.pend[2], e)
       IN  Proceed("messages_POST", resp.session, resp.id, r, "assistantMessage",
                   <<resp.pend[1], resp.pend[2], resp.pend[3], r.body>>)

\* messages route, script path: the second sendMessage and the response
ScriptAssistantMessage(e) ==
    /\ resp.stage = "assistantMessage"
    /\ Proceed("messages_POST", resp.session, resp.id,
               route_messages_POST_assistantMessage(ApiDb, now, profiles, trialKey, resp.session,
                   resp.id, resp.pend[3], resp.pend[2], resp.pend[4], e),
               "done", <<>>)

ApiKeyGet(session) ==
    /\ Quiet
    /\ Proceed("apiKey_GET", session, NoId, route_apiKey_GET(ApiDb, session), "done", <<>>)

ApiKeyPost(session, bodyThrows, apiKey) ==
    /\ Quiet
    /\ Proceed("apiKey_POST", session, NoId, route_apiKey_POST(ApiDb, session, bodyThrows, apiKey), "done", <<>>)

ApiKeyDelete(session) ==
    /\ Quiet
    /\ Proceed("apiKey_DELETE", session, NoId, route_apiKey_DELETE(ApiDb, session), "done", <<>>)

UsageStatsGet(session, statsThrows) ==
    /\ Quiet
    /\ Proceed("usageStats_GET", session, NoId, route_usageStats_GET(ApiDb, session, statsThrows), "done", <<>>)

UsageStatsPost(session, bodyThrows, settings, updateError) ==
    /\ Quiet
    /\ Proceed("usageStats_POST", session, NoId,
            route_usageStats_POST(ApiDb, session, bodyThrows, settings, updateError), "done", <<>>)

ApiNext ==
    \/ Deliver
    \/ \E e \in Envs : ScriptUserMessage(e)
    \/ \E e \in Envs : ScriptAssistantMessage(e)
    \/ \E session \in ApiSessions :
        \/ ChatsGet(session)
        \/ \E bodyThrows \in BOOLEAN, title \in NewTitleChoices, model \in ModelChoices :
              ChatsPost(session, bodyThrows, title, model)
        \/ \E id \in IdChoices : ChatGet(session, id)
        \/ \E id \in IdChoices : ChatDelete(session, id)
        \/ \E id \in IdChoices, bodyThrows \in BOOLEAN, title \in TitleChoices :
              ChatPatch(session, id, bodyThrows, title)
        \/ \E id \in IdChoices, bodyThrows \in BOOLEAN, content \in ContentChoices,
              model \in ModelChoices, e \in Envs :
              MessagesPost(session, id, bodyThrows, content, model, e)
        \/ ApiKeyGet(session)
        \/ \E bodyThrows \in BOOLEAN, apiKey \in ApiKeyChoices :
              ApiKeyPost(session, bodyThrows, apiKey)
        \/ ApiKeyDelete(session)
        \/ \E statsThrows \in BOOLEAN : UsageStatsGet(session, statsThrows)
        \/ \E bodyThrows \in BOOLEAN, settings \in SettingsChoices, updateError \in BOOLEAN :
              UsageStatsPost(session, bodyThrows, settings, updateError)

SpecApi == ApiInit /\ [][ApiNext]_vars

----------------------------------------------------------------------------
(* Token estimates and recorded cost: GeminiService.generateText called on
   short prompts, SupabaseUsageStatsService.recordUsage called with token
   counts of the size real requests have *)

CostModels == {"gemini-1.5-pro", "gemini-1.5-flash", "gemini-pro", "gemini-2.0"}
CostTokenCounts == {1000, 39999, 40000, 50000, 66667}
CostPrompts == {<<"a">>, Message, <<"a", "b", "c">>, <<"s", "o", "r", "t", "x", "y", "z">>}

CostInit ==
    /\ now = 0
    /\ rate_limits = <<>>
    /\ limits = <<>>
    /\ calls = <<>>
    /\ lastCheck = NoCheck
    /\ usageLog = <<>>
    /\ req = <<>>
    /\ profiles = [p \in ProfileIds |-> encrypt("AIzaUser")]
    /\ trialKey = "AIzaTrial"
    /\ usage_stats = <<>>
    /\ admitted = <<>>
    /\ chats = [rows |-> {}, seq |-> 0]
    /\ messages = [rows |-> {}, seq |-> 0]
    /\ users = [e \in Emails |-> NoKey]
    /\ cost_settings = [e \in Emails |-> NoSettings]
    /\ resp = NoResp

\* GeminiService.generateText(userEmail, prompt, model, isTrialMode)
CostGenerateText(userEmail, prompt, model, isTrialMode, e) ==
    /\ Len(usage_stats) < MaxStats
    /\ LET r == GeminiService_generateText(ApiDb, now, profiles, trialKey, userEmail, prompt,
                     model, isTrialMode, e)
       IN  /\ usage_stats' = r.db.usage_stats
           /\ resp' = [route |-> "generateText", stage |-> "idle", prompt |-> prompt,
                       err |-> r.err, content |-> r.content, tokensUsed |-> r.tokensUsed]
    /\ UNCHANGED <<chats, messages, users, cost_settings>>
    /\ UNCHANGED <<limVars, req, profiles, trialKey, admitted>>

\* SupabaseUsageStatsService.recordUsage(userEmail, model, tokensUsed)
CostRecordUsage(userEmail, model, tokensUsed, statsError) ==
    /\ Len(usage_stats) < MaxStats
    /\ usage_stats' = SupabaseUsageStatsService_recordUsage(ApiDb, userEmail, model, tokensUsed,
                          "chat", statsError).usage_stats
    /\ resp' = [route |-> "recordUsage", stage |-> "idle"]
    /\ UNCHANGED <<chats, messages, users, cost_settings>>
    /\ UNCHANGED <<limVars, req, profiles, trialKey, admitted>>

CostNext ==
    \/ \E userEmail \in ProfileIds, prompt \in CostPrompts, model \in CostModels,
          isTrialMode \in BOOLEAN, e \in {x \in Envs : ~x.updateThrows} :
          CostGenerateText(userEmail, prompt, model, isTrialMode, e)
    \/ \E userEmail \in ProfileIds, model \in CostModels, tokensUsed \in CostTokenCounts,
          statsError \in BOOLEAN :
          CostRecordUsage(userEmail, model, tokensUsed, statsError)

SpecCost == CostInit /\ [][CostNext]_vars

----------------------------------------------------------------------------
(* ApiKeyService on the users table, called directly and through
   POST /api/user/api-key *)

KeyNames == {Null, "bad", "AIzaUser", "AIzaOther", "AIzaShort", "AIzaLong", "AIzaBang",
             "AIzaLine", "aizaLower"}

KeysInit ==
    /\ now = 0
    /\ rate_limits = <<>>
    /\ limits = <<>>
    /\ calls = <<>>
    /\ lastCheck = NoCheck
    /\ usageLog = <<>>
    /\ req = <<>>
    /\ profiles = [p \in ProfileIds |-> Null]
    /\ trialKey = "AIzaTrial"
    /\ usage_stats = <<>>
    /\ admitted = <<>>
    /\ chats = [rows |-> {}, seq |-> 0]
    /\ messages = [rows |-> {}, seq |-> 0]
    /\ users \in [Emails -> {NoUser, NoKey}]
    /\ cost_settings = [e \in Emails |-> NoSettings]
    /\ resp = NoResp

\* ApiKeyService.storeApiKey(userEmail, apiKey)
KeysStore(userEmail, apiKey) ==
    /\ LET r == ApiKeyService_storeApiKey(ApiDb, userEmail, apiKey)
       IN  /\ users' = r.db.users
           /\ resp' = [route |-> "storeApiKey", stage |-> "idle", user |-> userEmail,
                       key |-> apiKey, ret |-> r.ret]
    /\ UNCHANGED <<chats, messages, cost_settings>>
    /\ UNCHANGED <<limVars, strVars>>

\* POST /api/user/api-key {apiKey}
KeysPost(session, bodyThrows, apiKey) ==
    /\ LET r == route_apiKey_POST(ApiDb, session, bodyThrows, apiKey)
       IN  /\ users' = r.db.users
           /\ resp' = [route |-> "apiKey_POST", stage |-> "idle", user |-> session.email,
                       key |-> apiKey, ret |-> r.status = 200]
    /\ UNCHANGED <<chats, messages, cost_settings>>
    /\ UNCHANGED <<limVars, strVars>>

\* ApiKeyService.deleteApiKey(userEmail)
KeysDelete(userEmail) ==
    /\ LET r == ApiKeyService_deleteApiKey(ApiDb, userEmail)
       IN  /\ users' = r.db.users
           /\ resp' = [route |-> "deleteApiKey", stage |-> "idle", user |-> userEmail,
                       key |-> Null, ret |-> r.ret]
    /\ UNCHANGED <<chats, messages, cost_settings>>
    /\ UNCHANGED <<limVars, strVars>>

KeysNext ==
    \/ \E userEmail \in Emails, apiKey \in KeyNames : KeysStore(userEmail, apiKey)
    \/ \E session \in ApiSessions, bodyThrows \in BOOLEAN, apiKey \in KeyNames :
          KeysPost(session, bodyThrows, apiKey)
    \/ \E userEmail \in Emails : KeysDelete(userEmail)

SpecKeys == KeysInit /\ [][KeysNext]_vars

----------------------------------------------------------------------------
(* Sequential requests through the Supabase limiter: a request is checked
   and, when allowed, recorded; it takes one minute.  The limiter's
   parameters are fixed for a behaviour and kept in lastCheck, with the time
   of the user's last denial (-1: none). *)

BurstInit ==
    /\ now = 0
    /\ rate_limits = <<>>
    /\ limits = <<>>
    /\ calls = <<>>
    /\ lastCheck \in {[userId |-> "alice@example.com", windowMinutes |-> w, maxRequests |-> r,
                       maxTokens |-> DefaultMaxTokens, deniedAt |-> -1] :
                         w \in WindowChoices, r \in MaxRequestChoices}
    /\ usageLog = <<>>
    /\ req = <<>>
    /\ profiles = [p \in ProfileIds |-> Null]
    /\ trialKey = Null
    /\ usage_stats = <<>>
    /\ admitted = <<>>
    /\ chats = [rows |-> {}, seq |-> 0]
    /\ messages = [rows |-> {}, seq |-> 0]
    /\ users = [e \in Emails |-> NoKey]
    /\ cost_settings = [e \in Emails |-> NoSettings]
    /\ resp = NoResp

BurstTick(d) ==
    /\ now + d <= MaxTime
    /\ now' = now + d
    /\ UNCHANGED <<rate_limits, limits, calls, lastCheck, usageLog>>
    /\ UNCHANGED <<strVars, apiVars>>

\* checkLimit(userId, ...), then recordUsage(userId, tokensUsed) when allowed
BurstRequest(tokensUsed) ==
    /\ now + 1 <= MaxTime
    /\ LET rl == SupabaseRateLimitModel_checkLimit(rate_limits, now, lastCheck.userId,
                     lastCheck.windowMinutes, lastCheck.maxRequests, lastCheck.maxTokens, FALSE)
       IN  IF rl.allowed
           THEN /\ Len(usageLog) < MaxLog
                /\ rate_limits' = SupabaseRateLimitModel_recordUsage(rate_limits, now,
                                     lastCheck.userId, tokensUsed)
                /\ usageLog' = Append(usageLog, [userId |-> lastCheck.userId, at |-> now,
                                                 tokensUsed |-> tokensUsed])
                /\ UNCHANGED lastCheck
           ELSE /\ lastCheck' = [lastCheck EXCEPT !.deniedAt = now]
                /\ UNCHANGED <<rate_limits, usageLog>>
    /\ now' = now + 1
    /\ UNCHANGED <<limits, calls>>
    /\ UNCHANGED <<strVars, apiVars>>

BurstNext ==
    \/ \E d \in TickSteps : BurstTick(d)
    \/ BurstRequest(0)

SpecBurst == BurstInit /\ [][BurstNext]_vars

----------------------------------------------------------------------------
(* The application page: resp is the state of the page (React state and what
   the page has done since it was loaded), calls the requests it has sent *)

summarizePrompt == "Please analyze and summarize this PDF document"

FileChoices == {[type |-> "application/pdf", size |-> 1024],
                [type |-> "application/pdf", size |-> 20971521],
                [type |-> "text/plain", size |-> 1024]}

\* PDFParser.validateFile
PDFParser_validateFile(file) ==
    file.type = "application/pdf" /\ file.size <= 20 * 1024 * 1024

PageInit ==
    /\ now = 0
    /\ rate_limits = <<>>
    /\ limits = <<>>
    /\ calls = <<>>
    /\ lastCheck = NoCheck
    /\ usageLog = <<>>
    /\ req = <<>>
    /\ profiles = [p \in ProfileIds |-> Null]
    /\ trialKey = Null
    /\ usage_stats = <<>>
    /\ admitted = <<>>
    /\ chats = [rows |-> {}, seq |-> 0]
    /\ messages = [rows |-> {}, seq |-> 0]
    /\ users = [e \in Emails |-> NoKey]
    /\ cost_settings = [e \in Emails |-> NoSettings]
    /\ resp = [route |-> "page", stage |-> "loading", session |-> NoSession,
               isTrialMode |-> FALSE, trialUserId |-> Null,
               selectedModel |-> "gemini-1.5-pro", uploadDialogOpen |-> FALSE,
               parsed |-> 0, error |-> Null]

\* the checkAuth effect: the session and localStorage.trialMode are read
PageCheckAuth(user, trialMode) ==
    /\ resp.stage = "loading"
    /\ resp' = IF trialMode = "true"
               THEN [resp EXCEPT !.stage = "loaded", !.session = user, !.isTrialMode = TRUE,
                                 !.trialUserId = "trial_1",
                                 !.selectedModel = "gemini-1.5-flash"]
               ELSE IF user = NoSession
               THEN [resp EXCEPT !.stage = "signin"]
               ELSE [resp EXCEPT !.stage = "loaded", !.session = user]
    /\ UNCHANGED <<chats, messages, users, cost_settings>>
    /\ UNCHANGED <<limVars, strVars>>

\* the Upload button of the chat pane opens the dialog
PageOpenUpload ==
    /\ resp.stage = "loaded"
    /\ ~resp.uploadDialogOpen
    /\ resp' = [resp EXCEPT !.uploadDialogOpen = TRUE]
    /\ UNCHANGED <<chats, messages, users, cost_settings>>
    /\ UNCHANGED <<limVars, strVars>>

\* FileDropZone.handleFileSelection, then handleFileProcessed and the fetch of
\* handleAIResponse
PageSelectFile(file, parseThrows) ==
    /\ resp.stage = "loaded"
    /\ resp.uploadDialogOpen
    /\ IF ~PDFParser_validateFile(file)
       THEN /\ ~parseThrows
            /\ resp' = [resp EXCEPT !.error = "Invalid file"]
            /\ UNCHANGED calls
       ELSE IF parseThrows
       THEN /\ resp' = [resp EXCEPT !.parsed = 1, !.error = "Failed to parse PDF"]
            /\ UNCHANGED calls
       ELSE /\ Len(calls) < NumCalls
            /\ resp' = [resp EXCEPT !.parsed = 1, !.error = Null,
                                    !.uploadDialogOpen = FALSE]
            /\ calls' = Append(calls, [url |-> "/api/chat/stream", message |-> summarizePrompt,
                                       model |-> resp.selectedModel, userId |-> Null,
                                       isTrialMode |-> FALSE])
    /\ UNCHANGED <<now, rate_limits, limits, lastCheck, usageLog>>
    /\ UNCHANGED <<chats, messages, users, cost_settings>>
    /\ UNCHANGED strVars

\* handleSendMessage
PageSendMessage(message) ==
    /\ resp.stage = "loaded"
    /\ message # ""
    /\ Len(calls) < NumCalls
    /\ calls' = Append(calls, [url |-> "/api/chat/stream", message |-> message,
                               model |-> resp.selectedModel,
                               userId |-> IF resp.isTrialMode THEN resp.trialUserId
                                          ELSE resp.session.email,
                               isTrialMode |-> resp.isTrialMode])
    /\ UNCHANGED <<now, rate_limits, limits, lastCheck, usageLog>>
    /\ UNCHANGED <<chats, messages, users, cost_settings, resp>>
    /\ UNCHANGED strVars

PageNext ==
    \/ \E user \in Sessions, trialMode \in {Null, "true"} : PageCheckAuth(user, trialMode)
    \/ PageOpenUpload
    \/ \E file \in FileChoices, parseThrows \in BOOLEAN : PageSelectFile(file, parseThrows)
    \/ \E message \in {"hi", "/script ls"} : PageSendMessage(message)

SpecPage == PageInit /\ [][PageNext]_vars

----------------------------------------------------------------------------
(* Trial statistics: recordTrialUsage and GET /api/trial/stats over the
   limits table; lastCheck is the latest answer of the route *)

\* TrialModeService.getTrialUserStats; pickLast tells which of the matching
\* rows the select, which has no ORDER BY, returns first
TrialModeService_getTrialUserStats(tab, t, userId, pickLast) ==
    LET lim == RateLimitModel_checkLimit(tab, t, userId, DAY, TrialMaxRequestsPerDay,
                   TrialMaxTokensPerDay, PickRow(tab, t, userId, DAY, pickLast))
    IN  [requestsToday |-> TrialMaxRequestsPerDay - lim.remaining,
         tokensToday |-> TrialMaxTokensPerDay - lim.tokensRemaining,
         requestsRemaining |-> lim.remaining,
         tokensRemaining |-> lim.tokensRemaining]

\* GET /api/trial/stats
route_trialStats_GET(tab, t, userId, pickLast) ==
    IF ~Truthy(userId) THEN [status |-> 400, body |-> [error |-> "User ID required"]]
    ELSE IF ~isTrialUser(userId) THEN [status |-> 400, body |-> [error |-> "Not a trial user"]]
    ELSE [status |-> 200, body |-> TrialModeService_getTrialUserStats(tab, t, userId, pickLast)]

\* the requests recorded for a user during the 24 hours before t
RecordedLastDay(log, userId, t) ==
    Cardinality({i \in DOMAIN log : log[i].userId = userId /\ log[i].at > t - DAY})

TrialInit ==
    /\ now = 0
    /\ rate_limits = <<>>
    /\ limits = <<>>
    /\ calls = <<>>
    /\ lastCheck = NoCheck
    /\ usageLog = <<>>
    /\ req = <<>>
    /\ profiles = [p \in ProfileIds |-> Null]
    /\ trialKey = Null
    /\ usage_stats = <<>>
    /\ admitted = <<>>
    /\ chats = [rows |-> {}, seq |-> 0]
    /\ messages = [rows |-> {}, seq |-> 0]
    /\ users = [e \in Emails |-> NoKey]
    /\ cost_settings = [e \in Emails |-> NoSettings]
    /\ resp = NoResp

TrialTick(d) ==
    /\ now + d <= MaxTime
    /\ now' = now + d
    /\ UNCHANGED <<rate_limits, limits, calls, lastCheck, usageLog>>
    /\ UNCHANGED <<strVars, apiVars>>

\* TrialModeService.recordTrialUsage: RateLimitModel.recordUsage for a trial
\* user, an exception for any other
TrialRecordUsage(userId, tokensUsed) ==
    /\ Len(usageLog) < MaxLog
    /\ IF ~isTrialUser(userId)
       THEN /\ lastCheck' = [userId |-> userId, at |-> now, status |-> 0,
                             body |-> [error |-> "Not a trial user"]]
            /\ UNCHANGED <<limits, usageLog>>
       ELSE /\ limits' = IF RateLimitModel_rowCount(limits, userId, HourStart(now)) > 0
                         THEN RateLimitModel_update(limits, userId, HourStart(now), tokensUsed)
                         ELSE RateLimitModel_insert(limits, userId, HourStart(now), tokensUsed)
            /\ usageLog' = Append(usageLog, [userId |-> userId, at |-> now,
                                             tokensUsed |-> tokensUsed])
            /\ lastCheck' = NoCheck
    /\ UNCHANGED <<now, rate_limits, calls>>
    /\ UNCHANGED <<strVars, apiVars>>

TrialStatsGet(userId, pickLast) ==
    /\ LET r == route_trialStats_GET(limits, now, userId, pickLast)
       IN  lastCheck' = [userId |-> userId, at |-> now, status |-> r.status, body |-> r.body]
    /\ UNCHANGED <<now, rate_limits, limits, calls, usageLog>>
    /\ UNCHANGED <<strVars, apiVars>>

TrialNext ==
    \/ \E d \in TickSteps : TrialTick(d)
    \/ \E userId \in UserIds, tokensUsed \in TokenChoices : TrialRecordUsage(userId, tokensUsed)
    \/ \E userId \in UserIds \cup {Null}, pickLast \in BOOLEAN : TrialStatsGet(userId, pickLast)

SpecTrial == TrialInit /\ [][TrialNext]_vars

----------------------------------------------------------------------------
(* The PDF parser: resp is one run of PDFParser.parseArrayBuffer *)

MaxTotalPages == 26   \* pages of the largest document parsed

MAX_PAGES == 20
PAGES_FROM_EACH_END == 5

\* Array.from({ length }, (_, i) => first + i)
ArrayFrom(length, first) == [i \in 1..length |-> first + i - 1]

\* Array.prototype.includes
Includes(arr, x) == \E i \in DOMAIN arr : arr[i] = x

\* Array.prototype.sort((a, b) => a - b)
RECURSIVE SortAscending(_)
SortAscending(arr) ==
    IF arr = <<>> THEN <<>>
    ELSE LET k == CHOOSE i \in DOMAIN arr :
                     /\ \A j \in DOMAIN arr : arr[i] <= arr[j]
                     /\ \A j \in 1..(i - 1) : arr[j] # arr[i]
         IN  <<arr[k]>> \o SortAscending(SubSeq(arr, 1, k - 1) \o SubSeq(arr, k + 1, Len(arr)))

\* determinePagesToExtract with the pages 2-4 added whether or not they are
\* among the first pages
determinePagesToExtract_tocNotExcluded(totalPages) ==
    IF totalPages <= MAX_PAGES THEN ArrayFrom(totalPages, 1)
    ELSE LET firstPages == ArrayFrom(PAGES_FROM_EACH_END, 1)
             lastPages == ArrayFrom(PAGES_FROM_EACH_END, totalPages - PAGES_FROM_EACH_END + 1)
             tocPages == SelectSeq(<<2, 3, 4>>, LAMBDA page :
                             page <= totalPages /\ ~Includes(lastPages, page))
         IN  SortAscending(SelectSeq(firstPages \o tocPages \o lastPages,
                 LAMBDA page : page >= 1 /\ page <= totalPages))

\* PDFParser.determinePagesToExtract
determinePagesToExtract(totalPages) ==
    IF totalPages <= MAX_PAGES THEN ArrayFrom(totalPages, 1)
    ELSE LET firstPages == ArrayFrom(PAGES_FROM_EACH_END, 1)
             lastPages == ArrayFrom(PAGES_FROM_EACH_END, totalPages - PAGES_FROM_EACH_END + 1)
             tocPages == SelectSeq(<<2, 3, 4>>, LAMBDA page :
                             /\ page <= totalPages
                             /\ ~Includes(firstPages, page)
                             /\ ~Includes(lastPages, page))
         IN  SortAscending(SelectSeq(firstPages \o tocPages \o lastPages,
                 LAMBDA page : page >= 1 /\ page <= totalPages))

\* the pages of a document that have no text, and those getPage fails on
PageFaults(totalPages) ==
    {[blank |-> {}, broken |-> {}], [blank |-> {2}, broken |-> {totalPages}],
     [blank |-> {totalPages}, broken |-> {1, 3}]}

PdfInit ==
    /\ now = 0
    /\ rate_limits = <<>>
    /\ limits = <<>>
    /\ calls = <<>>
    /\ lastCheck = NoCheck
    /\ usageLog = <<>>
    /\ req = <<>>
    /\ profiles = [p \in ProfileIds |-> Null]
    /\ trialKey = Null
    /\ usage_stats = <<>>
    /\ admitted = <<>>
    /\ chats = [rows |-> {}, seq |-> 0]
    /\ messages = [rows |-> {}, seq |-> 0]
    /\ users = [e \in Emails |-> NoKey]
    /\ cost_settings = [e \in Emails |-> NoSettings]
    /\ resp = [route |-> "pdf", stage |-> "idle"]

\* parseArrayBuffer up to the loop: the document is opened and the pages chosen
PdfOpen(totalPages, faults) ==
    /\ resp.stage = "idle"
    /\ resp' = [route |-> "pdf", stage |-> "extracting", totalPages |-> totalPages,
                faults |-> faults,
                pagesToExtract |-> determinePagesToExtract(totalPages),
                done |-> 0, extractedPages |-> <<>>]
    /\ UNCHANGED <<chats, messages, users, cost_settings>>
    /\ UNCHANGED <<limVars, strVars>>

\* one turn of the loop over pagesToExtract
PdfExtractPage ==
    /\ resp.stage = "extracting"
    /\ resp.done < Len(resp.pagesToExtract)
    /\ LET pageNum == resp.pagesToExtract[resp.done + 1]
       IN  resp' = [resp EXCEPT
                      !.done = @ + 1,
                      !.extractedPages =
                          IF pageNum \in resp.faults.broken \cup resp.faults.blank
                          THEN @ ELSE Append(@, pageNum)]
    /\ UNCHANGED <<chats, messages, users, cost_settings>>
    /\ UNCHANGED <<limVars, strVars>>

\* the result is returned
PdfReturn ==
    /\ resp.stage = "extracting"
    /\ resp.done = Len(resp.pagesToExtract)
    /\ resp' = [resp EXCEPT !.stage = "done"]
    /\ UNCHANGED <<chats, messages, users, cost_settings>>
    /\ UNCHANGED <<limVars, strVars>>

PdfNext ==
    \/ \E totalPages \in 1..MaxTotalPages :
          \E faults \in PageFaults(totalPages) : PdfOpen(totalPages, faults)
    \/ PdfExtractPage
    \/ PdfReturn

SpecPdf == PdfInit /\ [][PdfNext]_vars

----------------------------------------------------------------------------
\* C1: once maxRequests usages of a user were recorded inside the current
\* window, every checkLimit call for that user whose lookup succeeds is denied
\* (calls run one at a time; the window is taken as narrowly as the claim
\* allows: same hour bucket and less than windowMinutes ago)
C1_RejectsAfterN ==
    (/\ lastCheck # NoCheck
     /\ ~lastCheck.lookupError
     /\ lastCheck.usedInWindow >= lastCheck.maxRequests)
        => ~lastCheck.result.allowed

\* C4: each rate-limit table holds at most one row per (user, hour-aligned
\* window start), in the Supabase-backed and in the Drizzle-backed limiter
C4_OneRowPerBucket == ~Duplicate(rate_limits) /\ ~Duplicate(limits)

----------------------------------------------------------------------------
(* Claims about POST /api/chat/stream *)

\* the request was accounted to a trial identifier and reached the rate check
TrialRequest(q) ==
    /\ q.pc # "idle" /\ ~q.bodyThrows /\ q.message # <<>>
    /\ q.isTrialMode /\ Truthy(q.userId)

\* C2: a trial-mode request is answered 429 once the trial user has 50
\* requests or 1000 tokens on record for the current day
C2_TrialDailyQuota ==
    \A r \in ReqSlots :
        (/\ TrialRequest(req[r])
         /\ \/ req[r].usedToday.requests >= TrialMaxRequestsPerDay
            \/ req[r].usedToday.tokens >= TrialMaxTokensPerDay)
        => (req[r].pc = "done" /\ req[r].status = 429)

\* the request reached the rate check
Checked(q) ==
    q.pc # "idle" /\ ~q.bodyThrows /\ q.message # <<>> /\ q.userIdentifier # Null

\* C3: the verdict of the rate check rests only on the row read at the time
\* of the check, so two requests of one user that both read the row before
\* either records are both admitted
C3_VerdictFromStaleRow ==
    \A r \in ReqSlots :
        Checked(req[r]) =>
            (req[r].rateLimit.allowed <=>
                \/ req[r].data = NoRow
                \/ /\ req[r].data.request_count < DefaultMaxRequests
                   /\ req[r].data.token_count < DefaultMaxTokens)

\* C3 witness: one request was left in the quota, both requests of the user
\* were admitted, neither has recorded yet: more than maxRequests admitted
C3_BothAdmitted ==
    /\ req[1].pc = "admitted" /\ req[2].pc = "admitted"
    /\ req[1].userIdentifier = req[2].userIdentifier
    /\ req[1].data # NoRow /\ req[1].data.request_count = DefaultMaxRequests - 1
    /\ req[2].data # NoRow /\ req[2].data.request_count = DefaultMaxRequests - 1
    /\ req[1].rateLimit.allowed /\ req[2].rateLimit.allowed
    /\ admitted[req[1].userIdentifier].onRecord + admitted[req[1].userIdentifier].count
          > DefaultMaxRequests

\* the events a stream must carry for the chunks yielded so far
ExpectedEvents(q) ==
    [i \in 1..Len(q.yielded) |-> ChunkEvent(q.yielded[i])]
        \o (IF q.closed THEN <<DoneEvent>> ELSE <<>>)

\* C5: the stream of an admitted request carries one chunk event per chunk
\* yielded, in order, then exactly one [DONE] as its last event; it is closed
\* exactly once, when the handler is done, and nothing follows the close
C5_StreamShape ==
    \A r \in ReqSlots :
        req[r].status = 200 =>
            /\ req[r].events = ExpectedEvents(req[r])
            /\ req[r].closed <=> req[r].pc = "done"
            /\ req[r].closeCalls = IF req[r].closed THEN 1 ELSE 0

C5_TwoChunksThenDone ==
    \E r \in ReqSlots :
        /\ req[r].pc = "done" /\ req[r].status = 200
        /\ req[r].yielded = <<ChunkB, ChunkA>>
        /\ Len(req[r].events) = 3 /\ req[r].events[3] = DoneEvent

\* C6: when generation fails with an exception, the stream carries an error
\* event with the message before it is closed
C6_ErrorEventOnFailure ==
    \A r \in ReqSlots :
        (req[r].closed /\ req[r].genError # Null) =>
            \E i \in DOMAIN req[r].events : req[r].events[i] = ErrorEvent(req[r].genError)

C7_NoIdentity(q) == ~(q.isTrialMode /\ Truthy(q.userId)) /\ ~Truthy(q.session.email)

C7_BudgetUser(q) == ~q.isTrialMode /\ Truthy(q.session.email)

C7_Status(q, onBudgetThrow) ==
    IF q.bodyThrows THEN 500
    ELSE IF q.message = <<>> THEN 400
    ELSE IF C7_NoIdentity(q) THEN 401
    ELSE IF ~q.rateLimit.allowed THEN 429
    ELSE IF C7_BudgetUser(q) /\ q.budget.throws THEN onBudgetThrow
    ELSE IF C7_BudgetUser(q)
            /\ (q.budget.dailyLimitExceeded \/ q.budget.monthlyLimitExceeded) THEN 429
    ELSE 200

GenerationStarted(q) ==
    q.pc \in {"yielding", "mock", "recording"} \/ q.sdkCalled \/ q.events # <<>>
        \/ q.genError # Null

\* C7 as stated: 400, 401, 429 (rate), 429 (budget) in that order, 500 for
\* every other exception before the stream is returned, the budget check's
\* included; generation only when none applies
C7_StatusOrderOriginal ==
    \A r \in ReqSlots :
        /\ req[r].pc \notin {"idle", "admitted"} => req[r].status = C7_Status(req[r], 500)
        /\ GenerationStarted(req[r]) => C7_Status(req[r], 500) = 200

\* C7 amended: the same order, but an exception thrown by the budget check
\* is ignored and the request proceeds; 500 for the other exceptions
C7_StatusOrder ==
    \A r \in ReqSlots :
        /\ req[r].pc \notin {"idle", "admitted"} => req[r].status = C7_Status(req[r], 200)
        /\ GenerationStarted(req[r]) => C7_Status(req[r], 200) = 200

C7_BudgetDenied ==
    \E r \in ReqSlots :
        /\ req[r].pc = "done" /\ req[r].status = 429 /\ req[r].rateLimit.allowed
        /\ ~req[r].budget.dailyLimitExceeded /\ req[r].budget.monthlyLimitExceeded

----------------------------------------------------------------------------
(* Claims about the session-guarded CRUD routes *)

ChatRoutes == {"chat_GET", "chat_PATCH", "chat_DELETE"}

\* the latest request went to /api/chats/{id}, came from a signed-in user who
\* does not own chat {id}, and was not turned away as malformed (a body that
\* does not parse, a PATCH without title)
ByNonOwner ==
    /\ resp.route \in ChatRoutes
    /\ Truthy(resp.session.email)
    /\ \E c \in resp.chatBefore : c.user_id # resp.session.email
    /\ resp.status \notin {400, 500}

\* C8: a GET, PATCH or DELETE on /api/chats/{id} by a user who does not own
\* chat {id} returns 404 and leaves that chat and each of its messages as
\* they were
C8_NonOwnerLeavesChatAlone ==
    ByNonOwner =>
        /\ resp.status = 404
        /\ resp.chatBefore \subseteq chats.rows
        /\ resp.messagesBefore = {m \in messages.rows : m.chat_id = resp.chatId}

\* C9: a request without a session email to any of the guarded routes is
\* answered 401 and makes no query, so no stored row is read or changed
C9_NoSessionNoAccess ==
    (resp.route \in ApiRoutes /\ ~Truthy(resp.session.email)) =>
        /\ resp.status = 401
        /\ resp.ops = 0
        /\ ~resp.wrote

C9_EmptyEmailTurnedAway ==
    /\ resp.route = "chat_DELETE"
    /\ resp.session.email = ""
    /\ resp.status = 401
    /\ resp.chatBefore # {}
    /\ resp.messagesBefore # {}

----------------------------------------------------------------------------
\* C10: generation in trial mode (isTrialMode, or a signed-in caller with no
\* stored key) uses gemini-1.5-flash and the shared trial key whatever model
\* was requested; with the trial key unset it fails before any SDK call
C10_TrialUsesFlashAndTrialKey ==
    \A r \in ReqSlots :
        (/\ GenerationStarted(req[r])
         /\ \/ req[r].isTrialMode
            \/ ~SupabaseUserService_hasApiKey(profiles, req[r].session.id))
        => /\ trialKey # Null =>
                /\ req[r].genModel = "gemini-1.5-flash"
                /\ req[r].apiKey = trialKey
           /\ trialKey = Null =>
                /\ ~req[r].sdkCalled
                /\ req[r].yielded = <<>>
                /\ req[r].genError = "Trial mode not available"

C10_ProRequestedFlashUsed ==
    \E r \in ReqSlots :
        /\ req[r].sdkCalled /\ ~req[r].isTrialMode
        /\ req[r].model = "gemini-1.5-pro" /\ req[r].genModel = "gemini-1.5-flash"
        /\ req[r].apiKey = trialKey

----------------------------------------------------------------------------
\* C11: a signed-in caller who did not ask for trial mode and has a stored
\* key is served with that key, decrypted, and with the requested model
C11_OwnKeyAndRequestedModel ==
    \A r \in ReqSlots :
        (/\ GenerationStarted(req[r])
         /\ ~req[r].isTrialMode
         /\ Truthy(req[r].session.email)
         /\ SupabaseUserService_hasApiKey(profiles, req[r].session.id))
        => /\ req[r].genError = Null
           /\ req[r].apiKey = decrypt(profiles[req[r].session.id])
           /\ req[r].genModel = req[r].model

----------------------------------------------------------------------------
\* C12: once a key has been obtained, a failure of the SDK call is not raised
\* to the caller: generateStreamingText ends without an error and with a
\* final result, and generateText, given the same request, returns text and
\* a token estimate for it
C12_SdkFailureMasked ==
    \A r \in ReqSlots :
        (req[r].sdkCalled /\ req[r].closed) =>
            /\ req[r].genError = Null
            /\ req[r].finalResult.tokensUsed =
                   estimateTokens(req[r].message \o req[r].finalResult.content)
            /\ \A e \in Envs :
                  LET res == GeminiService_generateText(ApiDb, now, profiles, trialKey,
                                 req[r].userIdentifier, req[r].message, req[r].model,
                                 req[r].trial, e)
                  IN  e.gen = "throw" =>
                          /\ res.err = Null
                          /\ res.content # <<>>
                          /\ res.tokensUsed = estimateTokens(req[r].message \o res.content)

----------------------------------------------------------------------------
\* C13: the tokensUsed of a generation is the least n with 4n >= length of
\* prompt plus response, and the cost stored with a usage row is the whole
\* number of cents nearest to tokens / 1000 * rate * 100 (halves upwards),
\* the rate being 0.0001 for a model outside the cost table
C13_TokensAndCents ==
    /\ (resp.route = "generateText" /\ resp.err = Null) =>
          LET len == Len(resp.prompt) + Len(resp.content)
          IN  4 * (resp.tokensUsed - 1) < len /\ len <= 4 * resp.tokensUsed
    /\ \A i \in DOMAIN usage_stats :
          LET row == usage_stats[i]
              rate == IF row.model \in DOMAIN costPerToken THEN costPerToken[row.model] ELSE 100
              twice == 2 * row.tokens_used * rate      \* 2 * 10^7 * the cost in cents
          IN  /\ row.estimated_cost \in Nat
              /\ 20000000 * row.estimated_cost - 10000000 <= twice
              /\ twice < 20000000 * row.estimated_cost + 10000000

C13_HalfCentRoundedUp ==
    /\ resp.route = "generateText" /\ resp.err = Null
    /\ (Len(resp.prompt) + Len(resp.content)) % 4 # 0
    /\ \E i \in DOMAIN usage_stats :
          /\ usage_stats[i].model = "gemini-2.0"
          /\ usage_stats[i].tokens_used = 50000
          /\ usage_stats[i].estimated_cost = 1

----------------------------------------------------------------------------
\* C14: a usage of 1,000 tokens costs $0.125 with gemini-1.5-pro, $0.075 with
\* gemini-1.5-flash and $0.1 with gemini-pro (calculateCost is in billionths
\* of a dollar), and with gemini-1.5-pro it is stored as at least one cent
C14_DollarsPerThousandTokens ==
    \A i \in DOMAIN usage_stats :
        LET row == usage_stats[i]
            cost == SupabaseUsageStatsService_calculateCost(row.model, row.tokens_used)
        IN  row.tokens_used = 1000 =>
                /\ row.model = "gemini-1.5-pro" => cost = 125000000 /\ row.estimated_cost > 0
                /\ row.model = "gemini-1.5-flash" => cost = 75000000
                /\ row.model = "gemini-pro" => cost = 100000000

----------------------------------------------------------------------------
----------------------------------------------------------------------------
\* C16: of the sequential requests of a user, at most 2 * maxRequests are
\* admitted within any span of windowMinutes, and between a denial and a
\* later admission of the user lies the beginning of an hour
C16_TwiceMaxPerWindow ==
    \A i \in DOMAIN usageLog :
        /\ Cardinality({j \in DOMAIN usageLog :
               /\ usageLog[j].userId = usageLog[i].userId
               /\ usageLog[j].at >= usageLog[i].at
               /\ usageLog[j].at < usageLog[i].at + lastCheck.windowMinutes})
             <= 2 * lastCheck.maxRequests
        /\ (lastCheck.deniedAt >= 0 /\ usageLog[i].at > lastCheck.deniedAt) =>
               HourStart(usageLog[i].at) >= lastCheck.deniedAt

----------------------------------------------------------------------------
\* C17: while the page is in trial mode no uploaded PDF is parsed and no
\* request to summarise an uploaded document is sent to /api/chat/stream
C17_NoUploadInTrialMode ==
    (resp.route = "page" /\ resp.isTrialMode) =>
        /\ resp.parsed = 0
        /\ \A i \in DOMAIN calls :
              ~(calls[i].url = "/api/chat/stream" /\ calls[i].message = summarizePrompt)

----------------------------------------------------------------------------
\* C18: when the lookup of the rate-limit row returns an error, checkLimit
\* allows the request with remaining = maxRequests - 1 and tokensRemaining =
\* maxTokens, and no stored row changes
C18_LookupErrorFailsOpen ==
    [][(lastCheck' # lastCheck /\ lastCheck'.userId # "none" /\ lastCheck'.lookupError) =>
          /\ lastCheck'.result = [allowed |-> TRUE,
                                  remaining |-> lastCheck'.maxRequests - 1,
                                  tokensRemaining |-> lastCheck'.maxTokens]
          /\ rate_limits' = rate_limits]_vars

\* a check whose lookup failed while the user's row in the window had already
\* reached maxRequests
C18_ErrorOverFullRow ==
    /\ lastCheck.userId # "none"
    /\ lastCheck.lookupError
    /\ lastCheck.result.allowed
    /\ \E i \in DOMAIN rate_limits :
          /\ rate_limits[i].user_id = lastCheck.userId
          /\ rate_limits[i].window_start >= lastCheck.at - lastCheck.windowMinutes
          /\ rate_limits[i].request_count >= lastCheck.maxRequests

----------------------------------------------------------------------------
\* C19: of the requests that pass the rate check, exactly those of signed-in
\* users outside trial mode are budget-checked, a trial-mode request never;
\* when checkBudgetLimits throws the request is answered 200 and goes on to
\* generation as a request under budget does
C19_BudgetFailsOpen ==
    \A r \in ReqSlots :
        LET q == req[r] IN
        (q.pc \notin {"idle", "admitted"} /\ ~q.bodyThrows /\ q.message # <<>>
            /\ q.userIdentifier # Null /\ q.rateLimit.allowed) =>
            /\ q.budgetChecked = (~q.isTrialMode /\ Truthy(q.session.email))
            /\ (q.isTrialMode => ~q.budgetChecked)
            /\ (q.budgetChecked /\ q.budget.throws) =>
                  /\ q.status = 200
                  /\ q.pc # "streaming" => GenerationStarted(q)

\* a budget check that threw, after which chunks were generated and sent
C19_ThrowThenGenerated ==
    \E r \in ReqSlots :
        /\ req[r].budgetChecked /\ req[r].budget.throws
        /\ req[r].status = 200
        /\ req[r].yielded # <<>>
        /\ \E i \in DOMAIN req[r].events : req[r].events[i] = DoneEvent

----------------------------------------------------------------------------
\* C20: for a trial user the statistics report requestsToday = the number of
\* requests recorded in the last 24 hours (at most 50) and requestsRemaining =
\* 50 - requestsToday, so 0 and 50 for a user without recorded usage
C20_StatsCountRecorded ==
    (lastCheck.userId # "none" /\ lastCheck.status = 200) =>
        LET n == RecordedLastDay(usageLog, lastCheck.userId, lastCheck.at)
            requestsToday == IF n < TrialMaxRequestsPerDay THEN n ELSE TrialMaxRequestsPerDay
        IN  /\ lastCheck.body.requestsToday = requestsToday
            /\ lastCheck.body.requestsRemaining = TrialMaxRequestsPerDay - requestsToday

----------------------------------------------------------------------------
\* the messages the request being answered has added to the chat it names
PersistedByRequest ==
    {m \in messages.rows : m.chat_id = resp.chatId} \ resp.messagesBefore

\* a '/script ' message was posted, its command was stored as a user message
\* and the request has been answered 200
ScriptAnswered ==
    /\ resp.route = "messages_POST" /\ resp.stage = "done" /\ resp.status = 200
    /\ \E m \in PersistedByRequest : m.role = "user" /\ m.content = ScriptCommand

\* C21: a '/script ' message persists exactly one user message, the command,
\* and exactly one assistant message, the generated script, and the response
\* returns these two messages
C21_ScriptPersistsTwo ==
    ScriptAnswered =>
        /\ Cardinality({m \in PersistedByRequest : m.role = "user"}) = 1
        /\ Cardinality({m \in PersistedByRequest : m.role = "assistant"}) = 1
        /\ \A m \in PersistedByRequest :
              m.role = "assistant" =>
                  m.content # <<>> /\ m.content = ScriptAnswer(Tail(m.content))
        /\ {resp.body[1], resp.body[2]} = PersistedByRequest

----------------------------------------------------------------------------
\* C22: the pages determinePagesToExtract chooses are strictly increasing and
\* lie in 1..totalPages: all pages of a document of at most 20 pages, else
\* the first 5 and the last 5; never more than 20 pages
C22_PagesToExtract ==
    (resp.route = "pdf" /\ resp.stage # "idle") =>
        LET pages == resp.pagesToExtract
            n == resp.totalPages
        IN  /\ \A i \in DOMAIN pages : pages[i] \in 1..n
            /\ \A i \in DOMAIN pages : i > 1 => pages[i - 1] < pages[i]
            /\ n <= 20 => pages = [i \in 1..n |-> i]
            /\ n > 20 => pages = <<1, 2, 3, 4, 5, n - 4, n - 3, n - 2, n - 1, n>>
            /\ Len(pages) <= 20

\* a document of more than 20 pages has been parsed to the end
C22_LongDocumentParsed ==
    /\ resp.route = "pdf" /\ resp.stage = "done"
    /\ resp.totalPages > 20
    /\ Len(resp.pagesToExtract) = 10
    /\ resp.extractedPages # <<>>

----------------------------------------------------------------------------
\* the counts the rows i.. of a table hold for a user and a window start
RECURSIVE StoredCounts(_, _, _, _)
StoredCounts(tab, userId, windowStart, i) ==
    IF i > Len(tab) THEN [requests |-> 0, tokens |-> 0]
    ELSE LET rest == StoredCounts(tab, userId, windowStart, i + 1)
         IN  IF tab[i].user_id = userId /\ tab[i].window_start = windowStart
             THEN [requests |-> rest.requests + tab[i].request_count,
                   tokens |-> rest.tokens + tab[i].token_count]
             ELSE rest

\* the completed calls i.. of the log for a user and a window start: how many,
\* and the total of their tokensUsed
RECURSIVE CompletedCounts(_, _, _, _)
CompletedCounts(log, userId, windowStart, i) ==
    IF i > Len(log) THEN [requests |-> 0, tokens |-> 0]
    ELSE LET rest == CompletedCounts(log, userId, windowStart, i + 1)
         IN  IF log[i].userId = userId /\ HourStart(log[i].at) = windowStart
             THEN [requests |-> rest.requests + 1, tokens |-> rest.tokens + log[i].tokensUsed]
             ELSE rest

\* C23: once every SupabaseRateLimitModel.recordUsage call has completed, the
\* rows of a (user, bucket) hold as many requests as calls completed for it
\* and the total of their tokensUsed, whatever the interleaving.  (No row in
\* limits and no call in flight: every completed call was a Supabase one.)
C23_NoIncrementLost ==
    (limits = <<>> /\ \A c \in DOMAIN calls : calls[c].pc = "idle") =>
        \A userId \in UserIds :
            \A i \in DOMAIN usageLog :
                StoredCounts(rate_limits, userId, HourStart(usageLog[i].at), 1)
                    = CompletedCounts(usageLog, userId, HourStart(usageLog[i].at), 1)

====
